---------------------------- MODULE Spec2Model ----------------------------
(***************************************************************************)
(* Atlas entity / event / edit subsystem.                                  *)
(*                                                                         *)
(* The module holds one state machine per component, over one set of       *)
(* variables:                                                              *)
(*   Spec            one GeoEntity (dirty tracking, style, selection)      *)
(*   SpecManager     the EntityManager registry (add, remove, bulkCreate)  *)
(*   SpecHandle      a Handle bound to a vertex of its owner               *)
(*   SpecCollection  Collections, their children and event bubbling       *)
(*   SpecFeature     a Feature and its forms (display modes)               *)
(*   SpecLifecycle   entities from construction to remove()                *)
(*   SpecListeners   the listeners of one EventTarget and nested dispatch  *)
(*   SpecDisplayMode the display-mode events of the EntityManager          *)
(*   SpecEdit        the EditManager: modules and editing sessions         *)
(*   SpecFeatureOps  a Feature's style, height, elevation, transformations *)
(*   SpecFeatureSelect  a Feature's selection and removal                  *)
(*   SpecHandleLife  Handles without a vertex index, and removed Handles   *)
(*   SpecCollectionOps  the methods a Collection hands on to its children  *)
(*   SpecVisualisation  the static projections of the VisualisationManager *)
(*   SpecTranslation  the drags of the TranslationModule                   *)
(*   SpecFeatureCalls  a Feature driven through its own methods only       *)
(* Each specification starts every component in its constructed state and  *)
(* runs the operations of its own component.                               *)
(***************************************************************************)
EXTENDS Integers, Sequences, FiniteSets, TLC

VARIABLES
  entity,       \* the GeoEntity under Spec: a record of its fields
  op,           \* the operation that ran last (name and arguments)
  err,          \* what the last operation threw ("none" when it returned)
  roundTrip,    \* select/deselect bookkeeping: phase and the style before the first select
  store,        \* EntityManager._entities: the stored objects, one per ID
  created,      \* per constructor run of the last bulkCreate: id, children, children not stored then
  owner,        \* the Handle's owner: its entity fields and its vertices
  handle,       \* the Handle: target point, index, whether its dot was moved
  ownerMarked,  \* the owner's dirty set at the moment the last translate called owner.show()
  children,     \* the leaf entities Collections hold: their entity fields
  tracked,      \* Collection._entities per Collection: child ids in insertion order
  parent,       \* EventTarget._parent per entity
  dispatched,   \* the event dispatched last: target, targets reached, cancellation
  feature,      \* the Feature: display mode and visibility
  forms,        \* the Feature's form properties: absent, or the form's entity fields
  members,      \* the entities of SpecLifecycle by ID: constructed, visible, manager references
  emitted,      \* the events the last operation handed to EventManager.dispatchEvent
  listeners,    \* EventTarget._eventHandlers by listener id: registered, type, isHandling
  stack,        \* the dispatches in progress, innermost last: type, handlers left, running listener
  faulted,      \* the listeners whose callback was left by an exception
  origDisplayModes, \* EntityManager._origDisplayModes for the Feature: no record, or the saved mode
  overrides,    \* the display-mode events since the last reset: the mode before the first one
  edit,         \* the EditManager, the handlers it bound, its entities and their handles
  session,      \* the editing session in progress: translation enablement when it began
  fops,         \* the Feature's own fields, its forms' attributes, the calls of the last operation
  cops,         \* the Collections' own entity fields and the calls of the last Collection operation
  vis,          \* the VisualisationManager: projections added, rendered, current, events of the last call
  drag          \* the TranslationModule: target, last and original location, camera lock, the target's place

entityVars     == <<entity, roundTrip>>
managerVars    == <<store, created>>
handleVars     == <<owner, handle, ownerMarked>>
collectionVars == <<children, tracked, parent, dispatched>>
featureVars    == <<feature, forms>>
lifecycleVars  == <<members, emitted>>
listenerVars   == <<listeners, stack, faulted>>
displayVars    == <<origDisplayModes, overrides>>
editVars       == <<edit, session>>
opsVars        == <<fops>>
collOpsVars    == <<cops>>
visVars        == <<vis>>
dragVars       == <<drag>>
vars == <<entity, op, err, roundTrip, store, created, owner, handle, ownerMarked,
          children, tracked, parent, dispatched, feature, forms, members, emitted,
          listeners, stack, faulted, origDisplayModes, overrides, edit, session, fops, cops, vis, drag>>

(***************************************************************************)
(* Styles.  A Style is a value object compared with equals(); the entity   *)
(* also holds "no style" (null) before construction finishes and after a   *)
(* revert to a null previous style.                                        *)
(***************************************************************************)
FillColours == {"GREEN", "RED"}
BorderColours == {"BLACK", "WHITE"}
Styles == [fillColour : FillColours, borderColour : BorderColours]
NullStyle == [fillColour |-> "null", borderColour |-> "null"]
getDefaultStyle == [fillColour |-> "GREEN", borderColour |-> "BLACK"]
getSelectedStyle == [fillColour |-> "RED", borderColour |-> "BLACK"]

\* What Style.equals(null) does is the Style class's business: it answers false
\* or it dereferences the argument and throws.
NullEquals == {"false", "throws"}

\* modifyStyle's argument: each component is given or absent.
StyleChanges == [fillColour : FillColours \cup {"absent"},
                 borderColour : BorderColours \cup {"absent"}]

Components == {"entity", "style", "vertices"}

\* The _build hook: GeoEntity's own is abstract and throws; a renderable
\* subclass rebuilds its primitives and cleans; Feature and Collection have
\* nothing to build.
BuildKinds == {"abstract", "concrete"}

Ret(e, thrown) == [e |-> e, thrown |-> thrown]

(***************************************************************************)
(* GeoEntity, as pure functions of the entity record.                      *)
(***************************************************************************)
setDirty(e, components) == [e EXCEPT !.dirty = e.dirty \cup components]

clean(e) == [e EXCEPT !.dirty = {}]

\* setClean(component): without a component it deletes the key named by the
\* missing argument ("undefined"), with one it cleans the whole entity.
setClean(e, component) ==
  IF component = "undefined"
  THEN [e EXCEPT !.dirty = e.dirty \ {"undefined"}]
  ELSE clean(e)

isDirty(e) == Cardinality(e.dirty) > 0

isDirtyComponent(e, component) == component \in e.dirty

isRenderableField(e) == e.renderable

isRenderable(e) == Cardinality(e.dirty) = 0

isVisible(e) == e.visible

\* GeoEntity.isSelected() answers the _visible field
isSelected(e) == e.visible

concreteBuild(e) == clean(e)

build(e) ==
  CASE e.build = "abstract" -> Ret(e, "DeveloperError")
    [] e.build = "concrete" -> Ret(concreteBuild(e), "none")
    [] OTHER -> Ret(e, "none")

setStyle(e, s, nullEq) ==
  IF e.style # NullStyle /\ s = NullStyle /\ nullEq = "throws"
  THEN Ret(e, "TypeError")
  ELSE IF e.style # NullStyle /\ e.style = s
       THEN Ret(e, "none")
       ELSE LET e1 == [setDirty(e, {"style"}) EXCEPT !.previousStyle = e.style,
                                                     !.style = s]
            IN IF e1.visible THEN build(e1) ELSE Ret(e1, "none")

modifyStyle(e, newStyle) ==
  IF newStyle.fillColour = "absent" /\ newStyle.borderColour = "absent"
  THEN Ret(e, "none")
  ELSE LET e1 == setDirty(e, {"style"})
       IN IF e1.style = NullStyle
          THEN Ret(e1, "TypeError")
          ELSE Ret([e1 EXCEPT !.style =
                      [fillColour |-> IF newStyle.fillColour = "absent"
                                      THEN e1.style.fillColour
                                      ELSE newStyle.fillColour,
                       borderColour |-> IF newStyle.borderColour = "absent"
                                        THEN e1.style.borderColour
                                        ELSE newStyle.borderColour]], "none")

showSkipBuild(e) == Ret([e EXCEPT !.visible = TRUE], "none")

show(e) ==
  LET e1 == [e EXCEPT !.visible = TRUE]
  IN IF ~isRenderable(e1) THEN build(e1) ELSE Ret(e1, "none")

hide(e) == [e EXCEPT !.visible = FALSE]

onSelect(e, nullEq) == setStyle(e, getSelectedStyle, nullEq)

onDeselect(e, nullEq) == setStyle(e, e.previousStyle, nullEq)

setSelected(e, selected, nullEq) ==
  LET e1 == [e EXCEPT !.selected = selected]
  IN IF selected THEN onSelect(e1, nullEq) ELSE onDeselect(e1, nullEq)

\* GeoEntity._init: clean(), setDirty('entity'), setStyle(args.style || default)
\* while still invisible, then _visible = args.show.
GeoEntityInit(style, visible, buildKind) ==
  [dirty |-> {"entity", "style"}, visible |-> visible, renderable |-> FALSE,
   style |-> style, previousStyle |-> NullStyle, selected |-> FALSE,
   build |-> buildKind]

(***************************************************************************)
(* Spec: the operations of one GeoEntity.                                  *)
(***************************************************************************)
InitEntity ==
  /\ entity = GeoEntityInit(getDefaultStyle, FALSE, "abstract")
  /\ roundTrip = [phase |-> "idle", style |-> NullStyle]

Done(name, arg, thrown) ==
  /\ op' = [name |-> name, arg |-> arg]
  /\ err' = thrown

\* Any operation other than setSelected ends a select/deselect sequence.
ResetRoundTrip == roundTrip' = [phase |-> "idle", style |-> NullStyle]

\* new GeoEntity(id, {style, show}) of the base class or of a renderable subclass
Construct ==
  \E s \in Styles, v \in BOOLEAN, b \in BuildKinds :
    /\ entity' = GeoEntityInit(s, v, b)
    /\ Done("new", "", "none")
    /\ ResetRoundTrip
    /\ UNCHANGED <<managerVars, handleVars, collectionVars, featureVars, lifecycleVars, listenerVars, displayVars, editVars, opsVars, collOpsVars, visVars, dragVars>>

SetDirty ==
  \E components \in SUBSET Components :
    /\ entity' = setDirty(entity, components)
    /\ Done("setDirty", "components", "none")
    /\ ResetRoundTrip
    /\ UNCHANGED <<managerVars, handleVars, collectionVars, featureVars, lifecycleVars, listenerVars, displayVars, editVars, opsVars, collOpsVars, visVars, dragVars>>

SetClean ==
  \E component \in Components \cup {"undefined"} :
    /\ entity' = setClean(entity, component)
    /\ Done("setClean", component, "none")
    /\ ResetRoundTrip
    /\ UNCHANGED <<managerVars, handleVars, collectionVars, featureVars, lifecycleVars, listenerVars, displayVars, editVars, opsVars, collOpsVars, visVars, dragVars>>

Clean ==
  /\ entity' = clean(entity)
  /\ Done("clean", "", "none")
  /\ ResetRoundTrip
  /\ UNCHANGED <<managerVars, handleVars, collectionVars, featureVars, lifecycleVars, listenerVars, displayVars, editVars, opsVars, collOpsVars, visVars, dragVars>>

SetStyle ==
  \E s \in Styles, nullEq \in NullEquals :
    LET r == setStyle(entity, s, nullEq)
    IN /\ entity' = r.e
       /\ Done("setStyle", "style", r.thrown)
       /\ ResetRoundTrip
       /\ UNCHANGED <<managerVars, handleVars, collectionVars, featureVars, lifecycleVars, listenerVars, displayVars, editVars, opsVars, collOpsVars, visVars, dragVars>>

ModifyStyle ==
  \E newStyle \in StyleChanges :
    LET r == modifyStyle(entity, newStyle)
    IN /\ entity' = r.e
       /\ Done("modifyStyle", "newStyle", r.thrown)
       /\ ResetRoundTrip
       /\ UNCHANGED <<managerVars, handleVars, collectionVars, featureVars, lifecycleVars, listenerVars, displayVars, editVars, opsVars, collOpsVars, visVars, dragVars>>

Show ==
  LET r == show(entity)
  IN /\ entity' = r.e
     /\ Done("show", "", r.thrown)
     /\ ResetRoundTrip
     /\ UNCHANGED <<managerVars, handleVars, collectionVars, featureVars, lifecycleVars, listenerVars, displayVars, editVars, opsVars, collOpsVars, visVars, dragVars>>

Hide ==
  /\ entity' = hide(entity)
  /\ Done("hide", "", "none")
  /\ ResetRoundTrip
  /\ UNCHANGED <<managerVars, handleVars, collectionVars, featureVars, lifecycleVars, listenerVars, displayVars, editVars, opsVars, collOpsVars, visVars, dragVars>>

\* setSelected(true) starts or continues a run of selects and remembers the
\* style the run started from; setSelected(false) right after such a run
\* completes the round trip.  A call that throws ends the sequence.
SetSelected ==
  \E selected \in BOOLEAN, nullEq \in NullEquals :
    LET r == setSelected(entity, selected, nullEq)
    IN /\ entity' = r.e
       /\ Done("setSelected", IF selected THEN "true" ELSE "false", r.thrown)
       /\ roundTrip' =
            IF r.thrown # "none" THEN [phase |-> "idle", style |-> NullStyle]
            ELSE IF selected
                 THEN IF roundTrip.phase = "selected"
                      THEN roundTrip
                      ELSE [phase |-> "selected", style |-> entity.style]
                 ELSE IF roundTrip.phase = "selected"
                      THEN [roundTrip EXCEPT !.phase = "restored"]
                      ELSE [phase |-> "idle", style |-> NullStyle]
       /\ UNCHANGED <<managerVars, handleVars, collectionVars, featureVars, lifecycleVars, listenerVars, displayVars, editVars, opsVars, collOpsVars, visVars, dragVars>>

(***************************************************************************)
(* EntityManager: the registry of entities.  The ItemStore maps each ID to *)
(* one stored object.  An object handed to add() is a GeoEntity, some      *)
(* other object with a getId() method, or a value without one.             *)
(***************************************************************************)
Ids == {"a", "b", "c"}
Refs == {"o1", "o2"}
ObjectKinds == {"GeoEntity", "other", "noGetId"}
Objects == [id : Ids, kind : ObjectKinds, ref : Refs]

MaxBatch == 2

storedIds(s) == {e.id : e \in s}

\* entity.getId exists
hasId(e) == e.kind # "noGetId"

\* ItemStore.get(id) finds an item
getById(s, id) == id \in storedIds(s)

addOverwrite(s, e) ==
  IF e.kind = "noGetId"
  THEN [store |-> s, thrown |-> "TypeError"]
  ELSE IF e.kind # "GeoEntity"
       THEN [store |-> s, thrown |-> "DeveloperError"]
       ELSE [store |-> {x \in s : x.id # e.id} \cup {e},
             thrown |-> IF getById(s, e.id) THEN "Error" ELSE "none"]

add(s, e) ==
  IF ~hasId(e)
  THEN [store |-> s, thrown |-> "TypeError"]
  ELSE IF getById(s, e.id)
       THEN [store |-> s, thrown |-> "Error"]
       ELSE IF e.kind # "GeoEntity"
            THEN [store |-> s, thrown |-> "DeveloperError"]
            ELSE [store |-> s \cup {e}, thrown |-> "none"]

\* ItemStore.remove(id), as EntityManager.remove(id) applies it
removeById(s, id) == {e \in s : e.id # id}

\* GeoEntity._init registers the new entity with
\* this._entityManager.add(this.getId(), this): add(entity) receives the ID
\* string as its entity argument, a value without a getId method.
registerSelf(s, id) == add(s, [id |-> id, kind |-> "noGetId", ref |-> "o1"])

\* createFeature(id, args): a stored ID is refused, otherwise the Feature is
\* constructed with this manager bound as its entityManager.
createFeature(s, id) ==
  IF getById(s, id)
  THEN [store |-> s, thrown |-> "DeveloperError"]
  ELSE registerSelf(s, id)

\* A C3ML descriptor: its id and the ids its "children" field lists (none when
\* the field is absent or empty): no child, one child, or every other id.
nextId == [i \in Ids |-> CASE i = "a" -> "b" [] i = "b" -> "c" [] OTHER -> "a"]
ChildSets(i) == {{}, {nextId[i]}, Ids \ {i}}
Descriptors == {d \in [id : Ids, children : SUBSET Ids] : d.children \in ChildSets(d.id)}
Batches == UNION {[1..n -> Descriptors] : n \in 0..MaxBatch}

batchIds(c3mls) == {c3mls[k].id : k \in 1..Len(c3mls)}

neverDuplicateIds(c3mls) == FALSE

hasDuplicateIds(c3mls) ==
  \E j, k \in 1..Len(c3mls) : j # k /\ c3mls[j].id = c3mls[k].id

\* The edges [id, childId] pushed while scanning the batch, and the ids that
\* take part in the hierarchy (sortMap).
edgesOf(c3mls) ==
  {e \in Ids \X Ids :
     \E k \in 1..Len(c3mls) : e[1] = c3mls[k].id /\ e[2] \in c3mls[k].children}

sortMap(c3mls) == {e[1] : e \in edgesOf(c3mls)} \cup {e[2] : e \in edgesOf(c3mls)}

childrenOf(c3mls, id) ==
  UNION {c3mls[k].children : k \in {j \in 1..Len(c3mls) : c3mls[j].id = id}}

\* topsort(edges): the orders of the edges' nodes in which every edge's source
\* comes before its target; none exists when the edges hold a cycle, and the
\* library throws.
topsort(edges) ==
  LET nodes == {e[1] : e \in edges} \cup {e[2] : e \in edges}
      n == Cardinality(nodes)
  IN {o \in [1..n -> nodes] :
        /\ \A j, k \in 1..n : j # k => o[j] # o[k]
        /\ \A e \in edges : \E j, k \in 1..n : j < k /\ o[j] = e[1] /\ o[k] = e[2]}

TopsortThrows == <<"cycle">>

Reverse(s) == [k \in 1..Len(s) |-> s[Len(s) + 1 - k]]

unsorted(c3mls) == SelectSeq([k \in 1..Len(c3mls) |-> c3mls[k].id],
                             LAMBDA id : id \notin sortMap(c3mls))

sortedIdsForward(c3mls, order) == order \o unsorted(c3mls)

\* sortedIds: the topological order reversed, then the ids outside any hierarchy
\* in input order.
sortedIds(c3mls, order) == Reverse(order) \o unsorted(c3mls)

\* The creation loop over sortedIds.  A stored id is skipped; an id that no
\* descriptor of the batch carries has no c3ml and parsing it throws; for any
\* other id the constructor runs, and the run is logged with the children of
\* its descriptor that are not stored at that moment.  An exception ends the
\* loop.
RECURSIVE createAll(_, _, _, _)
createAll(ids, c3mls, s, log) ==
  IF ids = <<>>
  THEN [store |-> s, created |-> log, thrown |-> "none"]
  ELSE LET id == Head(ids)
       IN IF getById(s, id)
          THEN createAll(Tail(ids), c3mls, s, log)
          ELSE IF id \notin batchIds(c3mls)
               THEN [store |-> s, created |-> log, thrown |-> "TypeError"]
               ELSE LET r == createFeature(s, id)
                        log1 == Append(log, [id |-> id,
                                             children |-> childrenOf(c3mls, id),
                                             missing |-> childrenOf(c3mls, id) \ storedIds(s)])
                    IN IF r.thrown # "none"
                       THEN [store |-> r.store, created |-> log1, thrown |-> r.thrown]
                       ELSE createAll(Tail(ids), c3mls, r.store, log1)

bulkCreate(s, c3mls, order) ==
  IF hasDuplicateIds(c3mls)
  THEN [store |-> s, created |-> <<>>, thrown |-> "Error"]
  ELSE IF order = TopsortThrows
       THEN [store |-> s, created |-> <<>>, thrown |-> "Error"]
       ELSE createAll(sortedIds(c3mls, order), c3mls, s, <<>>)

\* What topsort may answer for a batch: an order of its nodes, or an exception.
Orders(c3mls) ==
  IF topsort(edgesOf(c3mls)) = {} THEN {TopsortThrows} ELSE topsort(edgesOf(c3mls))

\* Every call bulkCreate can receive: a batch and what topsort answers for it.
Calls == UNION {{[c3mls |-> b, order |-> o] : o \in Orders(b)} : b \in Batches}

InitManager ==
  /\ store = {}
  /\ created = <<>>

Add ==
  \E e \in Objects :
    LET r == add(store, e)
    IN /\ store' = r.store
       /\ created' = <<>>
       /\ Done("add", e, r.thrown)
       /\ UNCHANGED <<entityVars, handleVars, collectionVars, featureVars, lifecycleVars, listenerVars, displayVars, editVars, opsVars, collOpsVars, visVars, dragVars>>

Remove ==
  \E id \in Ids :
    /\ store' = removeById(store, id)
    /\ created' = <<>>
    /\ Done("remove", id, "none")
    /\ UNCHANGED <<entityVars, handleVars, collectionVars, featureVars, lifecycleVars, listenerVars, displayVars, editVars, opsVars, collOpsVars, visVars, dragVars>>

\* What a bulkCreate call was given, for the record of the operation: the ids
\* of the batch, whether two descriptors share an id, and whether every child
\* the batch names is described in it or stored and the hierarchy has no cycle.
batchGiven(s, c3mls, order) ==
  [ids |-> batchIds(c3mls),
   repeated |-> Cardinality(batchIds(c3mls)) < Len(c3mls),
   resolvable |-> /\ order # TopsortThrows
                  /\ \A k \in 1..Len(c3mls) :
                        c3mls[k].children \subseteq batchIds(c3mls) \cup storedIds(s)]

BulkCreate ==
  \E call \in Calls :
    LET r == bulkCreate(store, call.c3mls, call.order)
    IN /\ store' = r.store
       /\ created' = r.created
       /\ Done("bulkCreate", batchGiven(store, call.c3mls, call.order), r.thrown)
       /\ UNCHANGED <<entityVars, handleVars, collectionVars, featureVars, lifecycleVars, listenerVars, displayVars, editVars, opsVars, collOpsVars, visVars, dragVars>>

(***************************************************************************)
(* Entity lifecycle: construction, EntityManager.add and remove().  An     *)
(* entity holds a reference to the EventManager and, when it was built     *)
(* with one, to the EntityManager.                                         *)
(***************************************************************************)
NoMember == [made |-> FALSE, visible |-> FALSE, entityManager |-> FALSE, eventManager |-> FALSE]

\* The object the store holds for a constructed entity
stored(id) == [id |-> id, kind |-> "GeoEntity", ref |-> "o1"]

\* The target GeoEntity.remove() gives its event: new EventTarget()
FreshTarget == "eventTarget"

removeEvent(id) == [type |-> "entity/remove", id |-> id, target |-> FreshTarget]

LifeRet(ms, s, ev) == [members |-> ms, store |-> s, emitted |-> ev]

\* new GeoEntity(id, {entityManager, eventManager, show}): with an
\* entityManager the constructor registers the entity and what add() throws
\* ends the construction.
newEntity(ms, s, id, withManager, withEvents, visible) ==
  LET r == IF withManager THEN registerSelf(s, id) ELSE [store |-> s, thrown |-> "none"]
  IN IF r.thrown # "none"
     THEN [members |-> ms, store |-> r.store, thrown |-> r.thrown]
     ELSE [members |-> [ms EXCEPT ![id] = [made |-> TRUE, visible |-> visible,
                                           entityManager |-> withManager,
                                           eventManager |-> withEvents]],
           store |-> r.store, thrown |-> "none"]

\* GeoEntity.remove() and EntityManager.remove(id), which call each other:
\* remove() hides, asks its EntityManager to remove its ID and dispatches
\* 'entity/remove'; EntityManager.remove(id) takes a stored entity out of the
\* store and then calls remove() on it.
RECURSIVE entityRemove(_, _, _, _)
RECURSIVE managerRemove(_, _, _, _)
entityRemove(ms, s, ev, id) ==
  LET ms1 == [ms EXCEPT ![id].visible = FALSE]
      r == IF ms1[id].entityManager
           THEN managerRemove(ms1, s, ev, id)
           ELSE LifeRet(ms1, s, ev)
  IN IF r.members[id].eventManager
     THEN LifeRet(r.members, r.store, Append(r.emitted, removeEvent(id)))
     ELSE r

managerRemove(ms, s, ev, id) ==
  IF getById(s, id)
  THEN entityRemove(ms, removeById(s, id), ev, id)
  ELSE LifeRet(ms, s, ev)

InitLifecycle ==
  /\ members = [id \in Ids |-> NoMember]
  /\ emitted = <<>>

LifeDone(r) ==
  /\ members' = r.members
  /\ store' = r.store
  /\ UNCHANGED <<created, entityVars, handleVars, collectionVars, featureVars, listenerVars, displayVars, editVars, opsVars, collOpsVars, visVars, dragVars>>

NewEntity ==
  \E id \in Ids, withManager \in BOOLEAN, withEvents \in BOOLEAN, visible \in BOOLEAN :
    LET r == newEntity(members, store, id, withManager, withEvents, visible)
    IN /\ ~members[id].made
       /\ LifeDone(r)
       /\ emitted' = <<>>
       /\ Done("newEntity", [id |-> id, withManager |-> withManager], r.thrown)

\* entityManager.add(entity) with a constructed entity
ManagerAdd ==
  \E id \in Ids :
    LET r == add(store, stored(id))
    IN /\ members[id].made
       /\ LifeDone([members |-> members, store |-> r.store])
       /\ emitted' = <<>>
       /\ Done("managerAdd", id, r.thrown)

\* entity.remove()
EntityRemove ==
  \E id \in Ids :
    LET r == entityRemove(members, store, <<>>, id)
    IN /\ members[id].made
       /\ LifeDone(r)
       /\ emitted' = r.emitted
       /\ Done("entityRemove", [id |-> id, registered |-> getById(store, id)], "none")

\* entityManager.remove(id)
ManagerRemove ==
  \E id \in Ids :
    LET r == managerRemove(members, store, <<>>, id)
    IN /\ LifeDone(r)
       /\ emitted' = r.emitted
       /\ Done("managerRemove", id, "none")

\* The requests of toggleEntityVisibility: args.ids, or [args.id]
MaxRequest == 2
Requests == UNION {[1..n -> Ids] : n \in 1..MaxRequest}

RECURSIVE toggleSkippingMissing(_, _, _, _)
toggleSkippingMissing(ms, s, visible, ids) ==
  IF ids = <<>>
  THEN [members |-> ms, store |-> s, thrown |-> "none"]
  ELSE toggleSkippingMissing(
         [ms EXCEPT ![Head(ids)].visible = IF getById(s, Head(ids)) THEN visible ELSE @],
         s, visible, Tail(ids))

\* toggleEntityVisibility(visible, args): for each requested id in turn, an
\* Error when getById finds no entity, else entity.show() or entity.hide().
RECURSIVE toggleEntityVisibility(_, _, _, _)
toggleEntityVisibility(ms, s, visible, ids) ==
  IF ids = <<>>
  THEN [members |-> ms, store |-> s, thrown |-> "none"]
  ELSE IF ~getById(s, Head(ids))
       THEN [members |-> ms, store |-> s, thrown |-> "Error"]
       ELSE toggleEntityVisibility([ms EXCEPT ![Head(ids)].visible = visible],
                                   s, visible, Tail(ids))

\* The 'entity/show' and 'entity/hide' events of the host
ToggleEntityVisibility ==
  \E visible \in BOOLEAN, ids \in Requests :
    LET r == toggleEntityVisibility(members, store, visible, ids)
    IN /\ LifeDone(r)
       /\ emitted' = <<>>
       /\ Done("toggleEntityVisibility", [visible |-> visible, ids |-> ids], r.thrown)

(***************************************************************************)
(* Handle: the proxy of one vertex of its owner.  The owner is an entity   *)
(* with a vertex array; a vertex is a GeoPoint.                            *)
(***************************************************************************)
MaxCoord == 1
MaxDelta == 1

Coords == 0..MaxCoord
GeoPoints == [longitude : Coords, latitude : Coords, elevation : Coords]
Deltas == [longitude : -MaxDelta..MaxDelta, latitude : -MaxDelta..MaxDelta,
           elevation : -MaxDelta..MaxDelta]
ZeroDelta == [longitude |-> 0, latitude |-> 0, elevation |-> 0]
Indices == 0..2

\* GeoPoint.translate(other): a new point
pointTranslate(p, other) ==
  [longitude |-> p.longitude + other.longitude,
   latitude |-> p.latitude + other.latitude,
   elevation |-> p.elevation + other.elevation]

\* GeoPoint.equals(other)
pointEquals(p, other) ==
  /\ p.longitude = other.longitude
  /\ p.latitude = other.latitude
  /\ p.elevation = other.elevation

\* GeoPoint.set(other): this point with the values of the other
pointSet(p, other) ==
  [p EXCEPT !.longitude = other.longitude, !.latitude = other.latitude,
            !.elevation = other.elevation]

\* The vertices the owner is constructed with.
InitialVertices ==
  [i \in Indices |->
     [longitude |-> IF i = 1 THEN MaxCoord ELSE 0,
      latitude |-> IF i = 2 THEN MaxCoord ELSE 0,
      elevation |-> 0]]

OwnerInit(visible, buildKind) ==
  [e |-> GeoEntityInit(getDefaultStyle, visible, buildKind),
   vertices |-> InitialVertices]

\* args.index left out: _index is undefined
NoIndex == -1

\* Handle._init: _target = args.target || args.owner.getCentroid(),
\* _index = args.index, _owner = args.owner
HandleInit(target, index) ==
  [target |-> target, index |-> index, hasTarget |-> TRUE, hasOwner |-> TRUE,
   removed |-> FALSE, dotMoved |-> FALSE]

\* owner.translate(d) of a vertexed owner: every vertex moves by d
ownerTranslate(o, d) ==
  [o EXCEPT !.vertices = [i \in Indices |-> pointTranslate(o.vertices[i], d)]]

handleRemoveDotOnly(h) == h

\* Handle.remove(): _target = null, _owner = null, the dot is removed and
\* _delegateToTarget is replaced by a function that only logs a warning.
handleRemove(h) ==
  [h EXCEPT !.hasTarget = FALSE, !.hasOwner = FALSE, !.removed = TRUE]

HandleRet(h, o, marked, thrown) ==
  [handle |-> h, owner |-> o, marked |-> marked, thrown |-> thrown]

delegateTargetOnly(h, o, d) ==
  HandleRet([h EXCEPT !.target = pointSet(h.target, pointTranslate(h.target, d))],
            o, {}, "none")

\* _delegateToTarget('translate', [d]) of a Handle with a target: the result
\* of translating the target is written into the owner's vertex at the
\* Handle's index and into the target, the owner is marked dirty and shown.
\* Without an index owner.getVertices()[undefined] is undefined and its set()
\* is a TypeError.  Without a target the owner itself is translated.  The
\* function a removed Handle carries in its place does nothing.
delegateToTarget(h, o, d) ==
  LET result == pointTranslate(h.target, d)
  IN IF h.removed
     THEN HandleRet(h, o, {}, "none")
     ELSE IF ~h.hasTarget
     THEN IF h.hasOwner
          THEN HandleRet(h, ownerTranslate(o, d), {}, "none")
          ELSE HandleRet(h, o, {}, "TypeError")
     ELSE IF pointEquals(h.target, result)
     THEN HandleRet(h, o, {}, "none")
     ELSE IF h.index = NoIndex
     THEN HandleRet(h, o, {}, "TypeError")
     ELSE LET vs == [o.vertices EXCEPT ![h.index] = pointSet(o.vertices[h.index], result)]
              h1 == [h EXCEPT !.target = pointSet(h.target, result)]
              e1 == setDirty(o.e, {"vertices"})
              r == show(e1)
          IN HandleRet(h1, [e |-> r.e, vertices |-> vs], e1.dirty, r.thrown)

\* Handle.translate(translation, {delegate}): an exception of the delegation
\* leaves the dot where it was.
handleTranslate(h, o, d, delegate) ==
  LET r == IF delegate THEN delegateToTarget(h, o, d) ELSE HandleRet(h, o, {}, "none")
  IN IF r.thrown # "none"
     THEN r
     ELSE [r EXCEPT !.handle = [r.handle EXCEPT !.dotMoved = TRUE]]

InitHandle ==
  /\ owner = OwnerInit(FALSE, "abstract")
  /\ handle = HandleInit(InitialVertices[1], 1)
  /\ ownerMarked = {}

\* A new owner and a new Handle on one of its vertices.
NewHandle ==
  \E i \in Indices, v \in BOOLEAN, b \in BuildKinds :
    /\ owner' = OwnerInit(v, b)
    /\ handle' = HandleInit(InitialVertices[i], i)
    /\ ownerMarked' = {}
    /\ Done("newHandle", "", "none")
    /\ UNCHANGED <<entityVars, managerVars, collectionVars, featureVars, lifecycleVars, listenerVars, displayVars, editVars, opsVars, collOpsVars, visVars, dragVars>>

\* handle.translate(d, {delegate}); the coordinates stay inside the modelled range.
HandleTranslate ==
  \E d \in Deltas, delegate \in BOOLEAN :
    LET r == handleTranslate(handle, owner, d, delegate)
    IN /\ pointTranslate(handle.target, d) \in GeoPoints
       /\ handle' = r.handle
       /\ owner' = r.owner
       /\ ownerMarked' = r.marked
       /\ Done("translate", [d |-> d, delegate |-> delegate], r.thrown)
       /\ UNCHANGED <<entityVars, managerVars, collectionVars, featureVars, lifecycleVars, listenerVars, displayVars, editVars, opsVars, collOpsVars, visVars, dragVars>>

\* new Handle({owner}) without a target and an index: the target is the
\* owner's centroid, a GeoPoint of its own.
NewCentroidHandle ==
  \E c \in GeoPoints, v \in BOOLEAN, b \in BuildKinds :
    /\ owner' = OwnerInit(v, b)
    /\ handle' = HandleInit(c, NoIndex)
    /\ ownerMarked' = {}
    /\ Done("newCentroidHandle", "", "none")
    /\ UNCHANGED <<entityVars, managerVars, collectionVars, featureVars, lifecycleVars, listenerVars, displayVars, editVars, opsVars, collOpsVars, visVars, dragVars>>

\* handle.remove()
HandleRemove ==
  /\ ~handle.removed
  /\ handle' = handleRemove(handle)
  /\ ownerMarked' = {}
  /\ Done("handleRemove", "", "none")
  /\ UNCHANGED <<owner, entityVars, managerVars, collectionVars, featureVars, lifecycleVars, listenerVars, displayVars, editVars, opsVars, collOpsVars, visVars, dragVars>>

\* owner.hide()
OwnerHide ==
  /\ owner' = [owner EXCEPT !.e = hide(owner.e)]
  /\ ownerMarked' = {}
  /\ Done("ownerHide", "", "none")
  /\ UNCHANGED <<handle, entityVars, managerVars, collectionVars, featureVars, lifecycleVars, listenerVars, displayVars, editVars, opsVars, collOpsVars, visVars, dragVars>>

(***************************************************************************)
(* Collection: entities treated as one.  Two leaf entities and two         *)
(* Collections, all known to the EntityManager; K2 may hold K1.            *)
(***************************************************************************)
Leaves == {"L1", "L2"}
Collections == {"K1", "K2"}
Entities == Leaves \cup Collections
NoEntity == "none"

\* The ids addEntity is called with: "ghost" is unknown to the EntityManager.
Addable(k) == Leaves \cup {"ghost"} \cup (IF k = "K2" THEN {"K1"} ELSE {})

SeqRange(s) == {s[k] : k \in 1..Len(s)}

\* ItemStore.get(id) on a Collection's _entities
getEntity(tr, k, id) == id \in SeqRange(tr[k])

CollRet(tr, pa, thrown) == [tracked |-> tr, parent |-> pa, thrown |-> thrown]

addEntity(tr, pa, k, id) ==
  IF id \notin Entities
  THEN CollRet(tr, pa, "Error")
  ELSE IF getEntity(tr, k, id)
       THEN CollRet(tr, pa, "none")
       ELSE CollRet([tr EXCEPT ![k] = Append(tr[k], id)],
                    [pa EXCEPT ![id] = k], "none")

removeEntity(tr, pa, k, id) ==
  IF getEntity(tr, k, id)
  THEN CollRet([tr EXCEPT ![k] = SelectSeq(tr[k], LAMBDA x : x # id)],
               [pa EXCEPT ![id] = NoEntity], "none")
  ELSE CollRet(tr, pa, "none")

\* _everyEntity / _someEntity over the items in insertion order, each item
\* answering with its own method: a leaf with GeoEntity's, a Collection with
\* its aggregate.
RECURSIVE everyIsRenderable(_, _, _)
RECURSIVE everyIsSelected(_, _, _)
RECURSIVE someIsVisible(_, _, _)

entityIsRenderable(id, ch, tr) ==
  IF id \in Leaves THEN isRenderable(ch[id]) ELSE everyIsRenderable(tr[id], ch, tr)

entityIsSelected(id, ch, tr) ==
  IF id \in Leaves THEN isSelected(ch[id]) ELSE everyIsSelected(tr[id], ch, tr)

entityIsVisible(id, ch, tr) ==
  IF id \in Leaves THEN isVisible(ch[id]) ELSE someIsVisible(tr[id], ch, tr)

everyIsVisible(items, ch, tr) ==
  \A k \in 1..Len(items) : entityIsVisible(items[k], ch, tr)

everyIsRenderable(items, ch, tr) ==
  IF items = <<>> THEN TRUE
  ELSE IF ~entityIsRenderable(Head(items), ch, tr) THEN FALSE
       ELSE everyIsRenderable(Tail(items), ch, tr)

everyIsSelected(items, ch, tr) ==
  IF items = <<>> THEN TRUE
  ELSE IF ~entityIsSelected(Head(items), ch, tr) THEN FALSE
       ELSE everyIsSelected(Tail(items), ch, tr)

someIsVisible(items, ch, tr) ==
  IF items = <<>> THEN FALSE
  ELSE IF entityIsVisible(Head(items), ch, tr) THEN TRUE
       ELSE someIsVisible(Tail(items), ch, tr)

\* The methods _initDelegation installs on the Collection
collectionIsRenderable(k, ch, tr) == everyIsRenderable(tr[k], ch, tr)
collectionIsSelected(k, ch, tr) == everyIsSelected(tr[k], ch, tr)
collectionIsVisible(k, ch, tr) == someIsVisible(tr[k], ch, tr)

\* An 'entity/remove' event and the state it travels through.
NewEvent(target, tr, pa) ==
  [target |-> target, cancelled |-> FALSE, reached |-> <<>>, detached |-> {},
   trackedBy |-> {k \in Collections : getEntity(tr, k, target)},
   parentsBefore |-> pa]

NoEvent ==
  [target |-> NoEntity, cancelled |-> FALSE, reached |-> <<>>, detached |-> {},
   trackedBy |-> {}, parentsBefore |-> [id \in Entities |-> NoEntity]]

EventRet(ev, tr, pa) == [event |-> ev, tracked |-> tr, parent |-> pa]

onEntityRemoveNoCancel(k, ev, tr, pa) ==
  IF ev.target = k
  THEN EventRet(ev, tr, pa)
  ELSE LET r == removeEntity(tr, pa, k, ev.target)
       IN EventRet([ev EXCEPT !.detached = ev.detached \cup {k}], r.tracked, r.parent)

\* The listener of _initEvents on Collection k
onEntityRemove(k, ev, tr, pa) ==
  IF ev.target = k
  THEN EventRet(ev, tr, pa)
  ELSE LET r == removeEntity(tr, pa, k, ev.target)
       IN EventRet([ev EXCEPT !.detached = ev.detached \cup {k}, !.cancelled = TRUE],
                   r.tracked, r.parent)

\* EventTarget.handleEvent: every listener registered for the event's type;
\* a leaf has none, a Collection has the one of _initEvents.
handleEvent(at, ev, tr, pa) ==
  LET ev1 == [ev EXCEPT !.reached = Append(ev.reached, at)]
  IN IF at \in Collections
     THEN onEntityRemove(at, ev1, tr, pa)
     ELSE EventRet(ev1, tr, pa)

\* EventManager.dispatchEvent: the target handles the event, then, unless the
\* event was cancelled, its parent, and so on up to a target without parent.
RECURSIVE bubble(_, _, _, _)
bubble(at, ev, tr, pa) ==
  IF at = NoEntity
  THEN EventRet(ev, tr, pa)
  ELSE LET r == handleEvent(at, ev, tr, pa)
       IN IF r.event.cancelled
          THEN r
          ELSE bubble(r.parent[at], r.event, r.tracked, r.parent)

dispatchEvent(target, tr, pa) == bubble(target, NewEvent(target, tr, pa), tr, pa)

InitCollection ==
  /\ children = [l \in Leaves |-> GeoEntityInit(getDefaultStyle, FALSE, "concrete")]
  /\ tracked = [k \in Collections |-> <<>>]
  /\ parent = [id \in Entities |-> NoEntity]
  /\ dispatched = NoEvent

AddEntity ==
  \E k \in Collections :
    \E id \in Addable(k) :
      LET r == addEntity(tracked, parent, k, id)
      IN /\ tracked' = r.tracked
         /\ parent' = r.parent
         /\ dispatched' = NoEvent
         /\ Done("addEntity", <<k, id>>, r.thrown)
         /\ UNCHANGED <<children, entityVars, managerVars, handleVars, featureVars, lifecycleVars, listenerVars, displayVars, editVars, opsVars, collOpsVars, visVars, dragVars>>

RemoveEntity ==
  \E k \in Collections, id \in Entities :
    LET r == removeEntity(tracked, parent, k, id)
    IN /\ tracked' = r.tracked
       /\ parent' = r.parent
       /\ dispatched' = NoEvent
       /\ Done("removeEntity", <<k, id>>, r.thrown)
       /\ UNCHANGED <<children, entityVars, managerVars, handleVars, featureVars, lifecycleVars, listenerVars, displayVars, editVars, opsVars, collOpsVars, visVars, dragVars>>

\* show() on a leaf
ChildShow ==
  \E l \in Leaves :
    LET r == show(children[l])
    IN /\ children' = [children EXCEPT ![l] = r.e]
       /\ dispatched' = NoEvent
       /\ Done("childShow", l, r.thrown)
       /\ UNCHANGED <<tracked, parent, entityVars, managerVars, handleVars, featureVars, lifecycleVars, listenerVars, displayVars, editVars, opsVars, collOpsVars, visVars, dragVars>>

\* hide() on a leaf
ChildHide ==
  \E l \in Leaves :
    /\ children' = [children EXCEPT ![l] = hide(children[l])]
    /\ dispatched' = NoEvent
    /\ Done("childHide", l, "none")
    /\ UNCHANGED <<tracked, parent, entityVars, managerVars, handleVars, featureVars, lifecycleVars, listenerVars, displayVars, editVars, opsVars, collOpsVars, visVars, dragVars>>

\* setDirty('style') on a leaf
ChildSetDirty ==
  \E l \in Leaves :
    /\ children' = [children EXCEPT ![l] = setDirty(children[l], {"style"})]
    /\ dispatched' = NoEvent
    /\ Done("childSetDirty", l, "none")
    /\ UNCHANGED <<tracked, parent, entityVars, managerVars, handleVars, featureVars, lifecycleVars, listenerVars, displayVars, editVars, opsVars, collOpsVars, visVars, dragVars>>

\* remove() on a leaf: the leaf hides and dispatches 'entity/remove' with a new
\* EventTarget as the event's target; that target has no listener and no
\* parent, so the event is handled there and bubbles nowhere.
childRemove(ch, tr, pa, l) ==
  LET r == handleEvent(FreshTarget, NewEvent(FreshTarget, tr, pa), tr, pa)
  IN [children |-> [ch EXCEPT ![l] = hide(ch[l])],
      event |-> r.event, tracked |-> r.tracked, parent |-> r.parent]

ChildRemove ==
  \E l \in Leaves :
    LET r == childRemove(children, tracked, parent, l)
    IN /\ children' = r.children
       /\ tracked' = r.tracked
       /\ parent' = r.parent
       /\ dispatched' = r.event
       /\ Done("childRemove", l, "none")
       /\ UNCHANGED <<entityVars, managerVars, handleVars, featureVars, lifecycleVars, listenerVars, displayVars, editVars, opsVars, collOpsVars, visVars, dragVars>>

\* An 'entity/remove' event dispatched on an entity.
DispatchRemove ==
  \E target \in Entities :
    LET r == dispatchEvent(target, tracked, parent)
    IN /\ tracked' = r.tracked
       /\ parent' = r.parent
       /\ dispatched' = r.event
       /\ Done("dispatchEvent", target, "none")
       /\ UNCHANGED <<children, entityVars, managerVars, handleVars, featureVars, lifecycleVars, listenerVars, displayVars, editVars, opsVars, collOpsVars, visVars, dragVars>>

(***************************************************************************)
(* The methods _initDelegation installs on a Collection, and rotate.  A    *)
(* Collection is a GeoEntity with nothing to build; the base-class methods *)
(* work on its own entity fields.                                          *)
(***************************************************************************)
forSelfMethods ==
  {"remove", "show", "hide", "translate", "scale", "setSelected", "setStyle", "modifyStyle"}

Base == "base"

\* The calls made on a Collection: the method, its argument (the selection
\* state, the style or the style change, as the method takes it), and what
\* Style.equals(null) does during the call
NoChange == [fillColour |-> "absent", borderColour |-> "absent"]

CollCall(method, selected, style, change, nullEq) ==
  [method |-> method, selected |-> selected, style |-> style, change |-> change,
   nullEq |-> nullEq]

CollCalls ==
  {CollCall(m, FALSE, NullStyle, NoChange, "false") :
     m \in {"remove", "show", "hide", "translate", "scale", "rotate"}}
    \cup {CollCall("setSelected", b, NullStyle, NoChange, "false") : b \in BOOLEAN}
    \cup {CollCall("setStyle", FALSE, getSelectedStyle, NoChange, "false")}
    \cup {CollCall("modifyStyle", FALSE, NullStyle,
                   [fillColour |-> "RED", borderColour |-> "absent"], "false")}

CollectionInit == GeoEntityInit(getDefaultStyle, FALSE, "collection")

\* The calls followed on a pair of Collections after their construction
MaxCalls == 2

CollOpsInit == [self |-> [k \in Collections |-> CollectionInit], calls |-> <<>>, count |-> 0]

\* The state a call works on: the leaves, the Collections' own fields, the
\* calls made so far and what was thrown
CollState(ch, ks, calls, thrown) ==
  [ch |-> ch, ks |-> ks, calls |-> calls, thrown |-> thrown]

Noted(st, on, method, from) ==
  [st EXCEPT !.calls = Append(@, [on |-> on, method |-> method, from |-> from])]

\* A method of a leaf entity: GeoEntity's own where it has one, remove() as
\* hide() and an event nobody receives; translate, scale and rotate are the
\* subclass's and are noted only.
leafCall(e, c) ==
  CASE c.method = "show" -> show(e)
    [] c.method \in {"hide", "remove"} -> Ret(hide(e), "none")
    [] c.method = "setSelected" -> setSelected(e, c.selected, c.nullEq)
    [] c.method = "setStyle" -> setStyle(e, c.style, c.nullEq)
    [] c.method = "modifyStyle" -> modifyStyle(e, c.change)
    [] OTHER -> Ret(e, "none")

RECURSIVE forEntities(_, _, _, _, _)
RECURSIVE baseCall(_, _, _, _)
RECURSIVE collectionCall(_, _, _, _)

\* _forEntities(method, args): the method of every item in insertion order; an
\* item is a leaf or a Collection with its own installed method.
forEntities(items, k, st, tr, c) ==
  IF items = <<>>
  THEN st
  ELSE LET id == Head(items)
           st1 == Noted(st, id, c.method, k)
           r == IF id \in Leaves
                THEN LET l == leafCall(st1.ch[id], c)
                     IN [st1 EXCEPT !.ch[id] = l.e, !.thrown = l.thrown]
                ELSE collectionCall(id, st1, tr, c)
       IN IF r.thrown # "none" THEN r ELSE forEntities(Tail(items), k, r, tr, c)

\* The method of the class GeoEntity applied to the Collection itself:
\* setSelected and remove go on to this.setStyle and this.hide, which are the
\* installed methods; translate, scale and rotate are abstract.
baseCall(k, st, tr, c) ==
  LET st1 == Noted(st, k, c.method, Base)
      e == st1.ks[k]
  IN CASE c.method = "show" ->
            LET r == show(e) IN [st1 EXCEPT !.ks[k] = r.e, !.thrown = r.thrown]
       [] c.method = "hide" -> [st1 EXCEPT !.ks[k] = hide(e)]
       [] c.method = "setStyle" ->
            LET r == setStyle(e, c.style, c.nullEq)
            IN [st1 EXCEPT !.ks[k] = r.e, !.thrown = r.thrown]
       [] c.method = "modifyStyle" ->
            LET r == modifyStyle(e, c.change)
            IN [st1 EXCEPT !.ks[k] = r.e, !.thrown = r.thrown]
       [] c.method = "setSelected" ->
            collectionCall(k, [st1 EXCEPT !.ks[k].selected = c.selected], tr,
                           CollCall("setStyle", FALSE,
                                    IF c.selected THEN getSelectedStyle ELSE e.previousStyle,
                                    NoChange, c.nullEq))
       [] c.method = "remove" -> collectionCall(k, st1, tr, CollCall("hide", FALSE, NullStyle, NoChange, c.nullEq))
       [] OTHER -> [st1 EXCEPT !.thrown = "DeveloperError"]

\* collection[method](args): the installed method calls _forEntities and then
\* the method of the class; rotate is Collection's own, which calls
\* this._super(rotation, centroid) and then entity.rotate on every item.
collectionCall(k, st, tr, c) ==
  IF c.method \in forSelfMethods
  THEN LET r == forEntities(tr[k], k, st, tr, c)
       IN IF r.thrown # "none" THEN r ELSE baseCall(k, r, tr, c)
  ELSE LET r == baseCall(k, st, tr, c)
       IN IF r.thrown # "none" THEN r ELSE forEntities(tr[k], k, r, tr, c)

InitCollOps == cops = CollOpsInit

\* data.entities of the two Collections: K1 holds leaves, K2 leaves and K1
EntityLists ==
  [K1 |-> {<<>>, <<"L1">>, <<"L1", "L2">>, <<"L2", "L1">>},
   K2 |-> {<<>>, <<"K1">>, <<"L2", "K1">>, <<"K1", "L2">>}]

\* entityIds.forEach(this.addEntity, this) in _setup
RECURSIVE addEntities(_, _, _, _)
addEntities(ids, k, tr, pa) ==
  IF ids = <<>>
  THEN CollRet(tr, pa, "none")
  ELSE LET r == addEntity(tr, pa, k, Head(ids))
       IN addEntities(Tail(ids), k, r.tracked, r.parent)

\* new Collection('K1', {entities}), then new Collection('K2', {entities}),
\* over new leaves
NewCollections ==
  \E e1 \in EntityLists.K1, e2 \in EntityLists.K2 :
    LET r1 == addEntities(e1, "K1", [k \in Collections |-> <<>>],
                          [id \in Entities |-> NoEntity])
        r2 == addEntities(e2, "K2", r1.tracked, r1.parent)
    IN /\ tracked' = r2.tracked
       /\ parent' = r2.parent
       /\ children' = [l \in Leaves |-> GeoEntityInit(getDefaultStyle, FALSE, "concrete")]
       /\ cops' = CollOpsInit
       /\ dispatched' = NoEvent
       /\ Done("newCollections", "", "none")
       /\ UNCHANGED <<entityVars, managerVars, handleVars, featureVars, lifecycleVars, listenerVars, displayVars, editVars, opsVars, visVars, dragVars>>

\* A method called on a Collection
CollectionCall ==
  \E k \in Collections, c \in CollCalls :
    LET r == collectionCall(k, CollState(children, cops.self, <<>>, "none"), tracked, c)
    IN /\ cops.count < MaxCalls
       /\ children' = r.ch
       /\ cops' = [self |-> r.ks, calls |-> r.calls, count |-> cops.count + 1]
       /\ dispatched' = NoEvent
       /\ Done("collection", [on |-> k, method |-> c.method, selected |-> c.selected], r.thrown)
       /\ UNCHANGED <<tracked, parent, entityVars, managerVars, handleVars, featureVars, lifecycleVars, listenerVars, displayVars, editVars, opsVars, visVars, dragVars>>

(***************************************************************************)
(* Feature: one entity with a form per display mode.  A form is an entity  *)
(* of its own; the footprint form is a Polygon and can be extruded.        *)
(***************************************************************************)
DisplayModes == {"line", "footprint", "extrusion", "mesh", "image"}
Slots == {"line", "footprint", "mesh", "image"}

\* The arguments setDisplayMode is called with: a display mode, nothing
\* (undefined) or a name that is no display mode.
ModeArgs == DisplayModes \cup {"none", "bogus"}

\* A form object.  `ref' is the identity of the object; it tells apart the
\* Polygons the footprint property holds over time (the objects of the other
\* properties are never compared across calls and all carry "o1").
NewForm(buildKind) ==
  [present |-> TRUE, e |-> GeoEntityInit(getDefaultStyle, FALSE, buildKind),
   extrusion |-> FALSE, ref |-> "o1"]

\* A new Polygon that is not the object `old'
OtherPolygon(old) ==
  [NewForm("concrete") EXCEPT !.ref = IF old.present /\ old.ref = "o1" THEN "o2" ELSE "o1"]

\* An empty form property (null)
NoForm == [NewForm("concrete") EXCEPT !.present = FALSE]

FeatRet(f, fs, thrown) == [feature |-> f, forms |-> fs, thrown |-> thrown]

\* _getFormPropertyName: 'extrusion' shares the footprint property; a name
\* outside Feature.DisplayMode throws.
getFormPropertyName(displayMode) ==
  LET mode == IF displayMode = "extrusion" THEN "footprint" ELSE displayMode
  IN IF mode \in DisplayModes
     THEN [name |-> mode, thrown |-> "none"]
     ELSE [name |-> "", thrown |-> "DeveloperError"]

\* getForm() for the current display mode
getForm(f, fs) ==
  IF f.displayMode \in DisplayModes
  THEN fs[getFormPropertyName(f.displayMode).name]
  ELSE NoForm

\* Feature.getDisplayModeIds(): the values of Feature.DisplayMode in order
getDisplayModeIds == <<"line", "footprint", "extrusion", "mesh", "image">>

\* getForm(displayMode): the object stored for the mode, named by the property
\* holding it and its ref ("null" when the property is empty)
getFormOf(fs, displayMode) ==
  LET s == getFormPropertyName(displayMode).name
  IN IF fs[s].present THEN <<s, fs[s].ref>> ELSE <<"null">>

\* getForms(): one entry per display mode id whose getForm() is not empty
getForms(fs) ==
  LET ids == SelectSeq(getDisplayModeIds, LAMBDA m : getFormOf(fs, m) # <<"null">>)
  IN [i \in 1..Len(ids) |-> getFormOf(fs, ids[i])]

\* isRenderable() of a Feature: form && form.isRenderable()
featureIsRenderable(f, fs) ==
  IF ~getForm(f, fs).present THEN "null"
  ELSE IF isRenderable(getForm(f, fs).e) THEN "true" ELSE "false"

\* Polygon.enableExtrusion / disableExtrusion
setExtrusion(form, value) ==
  IF form.extrusion # value
  THEN [form EXCEPT !.extrusion = value, !.e = setDirty(@, {"model"})]
  ELSE form

\* The forms each branch of Feature.show() hides
HiddenByShow(displayMode) ==
  CASE displayMode = "line" -> {"mesh", "footprint", "image"}
    [] displayMode \in {"footprint", "extrusion"} -> {"mesh", "line", "image"}
    [] displayMode = "mesh" -> {"footprint", "line", "image"}
    [] displayMode = "image" -> {"footprint", "line", "image"}
    [] OTHER -> {}

\* Feature.show(): the branch of the display mode hides the other forms and
\* shows the form of the mode when there is one, then GeoEntity.show() marks
\* the Feature visible (Feature._build does nothing).
featureShow(f, fs) ==
  LET m == f.displayMode
      fs1 == [s \in Slots |->
                IF s \in HiddenByShow(m) /\ fs[s].present
                THEN [fs[s] EXCEPT !.e = hide(@)]
                ELSE fs[s]]
  IN IF ~getForm(f, fs1).present
     THEN FeatRet([f EXCEPT !.visible = TRUE], fs1, "none")
     ELSE LET s == getFormPropertyName(m).name
              form1 == CASE m = "footprint" -> setExtrusion(fs1[s], FALSE)
                         [] m = "extrusion" -> setExtrusion(fs1[s], TRUE)
                         [] OTHER -> fs1[s]
              r == show(form1.e)
              fs2 == [fs1 EXCEPT ![s] = [form1 EXCEPT !.e = r.e]]
          IN IF r.thrown # "none"
             THEN FeatRet(f, fs2, r.thrown)
             ELSE FeatRet([f EXCEPT !.visible = TRUE], fs2, "none")

\* Feature.hide(): GeoEntity.hide(), then hide() on the form of the display mode
featureHide(f, fs) ==
  LET f1 == [f EXCEPT !.visible = FALSE]
  IN IF getForm(f1, fs).present
     THEN FeatRet(f1, [fs EXCEPT ![getFormPropertyName(f1.displayMode).name].e = hide(@)], "none")
     ELSE FeatRet(f1, fs, "none")

setDisplayModeUnchecked(f, fs, displayMode) ==
  LET f1 == [f EXCEPT !.displayMode = displayMode]
  IN IF f1.visible THEN featureShow(f1, fs) ELSE featureHide(f1, fs)

setDisplayMode(f, fs, displayMode) ==
  IF displayMode # "none" /\ getFormPropertyName(displayMode).thrown # "none"
  THEN FeatRet(f, fs, getFormPropertyName(displayMode).thrown)
  ELSE LET f1 == [f EXCEPT !.displayMode = displayMode]
       IN IF f1.visible THEN featureShow(f1, fs) ELSE featureHide(f1, fs)

\* setForm(displayMode, entity) with a new entity
setForm(f, fs, displayMode, form) ==
  IF getFormPropertyName(displayMode).thrown # "none"
  THEN FeatRet(f, fs, getFormPropertyName(displayMode).thrown)
  ELSE LET fs1 == [fs EXCEPT ![getFormPropertyName(displayMode).name] = form]
       IN IF f.visible THEN featureShow(f, fs1) ELSE FeatRet(f, fs1, "none")

\* new Feature(id, {}): no form, no display mode, not shown
InitFeature ==
  /\ feature = [displayMode |-> "none", visible |-> FALSE]
  /\ forms = [s \in Slots |-> NoForm]

\* EntityManager._origDisplayModes[id] of the Feature: no record, or the mode
\* saved ("none" is a record holding undefined)
NoRecord == "absent"
NoOverride == "idle"

FeatureDone(r) ==
  /\ feature' = r.feature
  /\ forms' = r.forms
  /\ UNCHANGED <<entityVars, managerVars, handleVars, collectionVars, lifecycleVars, listenerVars, editVars, opsVars, collOpsVars, visVars, dragVars>>

\* The forms handed to setForm are entities of renderable subclasses: the
\* object the property already holds, or another object.
SetForm ==
  \E displayMode \in DisplayModes \cup {"bogus"}, reuse \in BOOLEAN :
    LET s == getFormPropertyName(displayMode)
        held == IF s.thrown = "none" THEN forms[s.name] ELSE NoForm
        form == IF reuse THEN held
                ELSE IF s.name = "footprint" THEN OtherPolygon(held)
                ELSE NewForm("concrete")
        r == setForm(feature, forms, displayMode, form)
    IN /\ reuse => held.present
       /\ FeatureDone(r) /\ Done("setForm", displayMode, r.thrown)
       /\ UNCHANGED displayVars

\* A direct call of setDisplayMode; one made between a display-mode event and
\* the reset is noted.
SetDisplayMode ==
  \E displayMode \in ModeArgs :
    LET r == setDisplayMode(feature, forms, displayMode)
    IN /\ FeatureDone(r) /\ Done("setDisplayMode", displayMode, r.thrown)
       /\ overrides' = IF overrides.first # NoOverride
                       THEN [overrides EXCEPT !.direct = TRUE]
                       ELSE overrides
       /\ UNCHANGED origDisplayModes

FeatureShow ==
  LET r == featureShow(feature, forms)
  IN FeatureDone(r) /\ Done("show", "", r.thrown) /\ UNCHANGED displayVars

FeatureHide ==
  LET r == featureHide(feature, forms)
  IN FeatureDone(r) /\ Done("hide", "", r.thrown) /\ UNCHANGED displayVars

\* show() called on a form itself
FormShow ==
  \E s \in Slots :
    LET r == show(forms[s].e)
    IN /\ forms[s].present
       /\ FeatureDone(FeatRet(feature, [forms EXCEPT ![s].e = r.e], r.thrown))
       /\ Done("formShow", s, r.thrown)
       /\ UNCHANGED displayVars

(***************************************************************************)
(* Feature operations that are handed on to the forms: style, height,      *)
(* elevation, the transformations, selection and remove().  `fops' holds   *)
(* the Feature's own fields (self), the attributes of the form objects     *)
(* (attrs, by the property that held the object), the calls the last       *)
(* operation made, in order, and the events it dispatched.                 *)
(***************************************************************************)
MaxLevel == 1

Levels == 0..MaxLevel
Transforms == {"translate", "scale", "rotate"}
Self == "self"

\* The forms a Feature is constructed with (args.line, args.polygon,
\* args.mesh, args.image), by the property that stores each.
FormSets == {{}, {"footprint"}, {"footprint", "mesh"}}

\* args.displayMode: absent, or the mode of one of the forms
InitDisplayModes == {"none", "footprint", "extrusion", "mesh"}

\* The display modes _init walks (propertyToDisplayMode; ellipse and polygon
\* both give 'extrusion')
InitModes == <<"mesh", "extrusion", "line", "image">>

NoAttrs == [height |-> 0, elevation |-> 0, removed |-> 0]

\* The Feature's own fields after GeoEntity._init and Feature._init
SelfInit ==
  [selected |-> FALSE, style |-> getDefaultStyle, previousStyle |-> NullStyle,
   height |-> 0, elevation |-> 0, removed |-> FALSE]

OpsInit == [self |-> SelfInit, attrs |-> [s \in Slots |-> NoAttrs], calls |-> <<>>, events |-> <<>>]

OpsRet(f, fs, o, thrown) == [feature |-> f, forms |-> fs, fops |-> o, thrown |-> thrown]

Called(o, on, method) == [o EXCEPT !.calls = Append(@, [on |-> on, method |-> method])]

\* One method of a form object: setStyle and setSelected are GeoEntity's, and
\* setSelected dispatches no event; setHeight is Polygon's; setElevation and
\* the transformations are the form's own business (its geometry is not
\* modelled, the call is noted); remove() hides the form and dispatches
\* 'entity/remove'.
formCall(form, a, ev, method, arg, nullEq) ==
  CASE method = "setStyle" ->
         LET r == setStyle(form.e, arg, nullEq)
         IN [form |-> [form EXCEPT !.e = r.e], attrs |-> a, events |-> ev, thrown |-> r.thrown]
    [] method = "setSelected" ->
         LET r == setSelected(form.e, arg, nullEq)
         IN [form |-> [form EXCEPT !.e = r.e], attrs |-> a, events |-> ev, thrown |-> r.thrown]
    [] method = "setHeight" ->
         IF a.height # arg
         THEN [form |-> [form EXCEPT !.e = setDirty(@, {"vertices"})],
               attrs |-> [a EXCEPT !.height = arg], events |-> ev, thrown |-> "none"]
         ELSE [form |-> form, attrs |-> a, events |-> ev, thrown |-> "none"]
    [] method = "setElevation" ->
         [form |-> form, attrs |-> [a EXCEPT !.elevation = arg], events |-> ev, thrown |-> "none"]
    [] method = "remove" ->
         [form |-> [form EXCEPT !.e = hide(@)], attrs |-> [a EXCEPT !.removed = @ + 1],
          events |-> Append(ev, "entity/remove"), thrown |-> "none"]
    [] OTHER ->
         [form |-> form, attrs |-> a, events |-> ev, thrown |-> "none"]

\* The call of a method on the form a property holds
callForm(f, fs, o, s, method, arg, nullEq) ==
  LET r == formCall(fs[s], o.attrs[s], o.events, method, arg, nullEq)
  IN OpsRet(f, [fs EXCEPT ![s] = r.form],
            [Called(o, s, method) EXCEPT !.attrs[s] = r.attrs, !.events = r.events],
            r.thrown)

\* _delegateToForm(method, args): form && form[method].apply(form, args), with
\* the form of the current display mode
delegateToForm(f, fs, o, method, arg, nullEq) ==
  IF ~getForm(f, fs).present
  THEN OpsRet(f, fs, o, "none")
  ELSE callForm(f, fs, o, getFormPropertyName(f.displayMode).name, method, arg, nullEq)

\* getForms().forEach: the method on every entry, until one throws
RECURSIVE delegateOver(_, _, _, _, _, _, _)
delegateOver(entries, f, fs, o, method, arg, nullEq) ==
  IF entries = <<>>
  THEN OpsRet(f, fs, o, "none")
  ELSE LET r == callForm(f, fs, o, Head(entries)[1], method, arg, nullEq)
       IN IF r.thrown # "none"
          THEN r
          ELSE delegateOver(Tail(entries), r.feature, r.forms, r.fops, method, arg, nullEq)

\* _delegateToForms(method, args)
delegateToForms(f, fs, o, method, arg, nullEq) ==
  delegateOver(getForms(fs), f, fs, o, method, arg, nullEq)

\* Feature.setStyle(style)
featureSetStyle(f, fs, o, style, nullEq) ==
  delegateToForms(f, fs, [o EXCEPT !.self.style = style], "setStyle", style, nullEq)

\* Feature.setHeight(height)
featureSetHeight(f, fs, o, height, nullEq) ==
  delegateToForms(f, fs, [o EXCEPT !.self.height = height], "setHeight", height, nullEq)

\* feature.setElevation(elevation): _initDelegation lists 'setElevation', so
\* the constructed Feature carries its own setElevation that calls
\* _delegateToForm and hides the method of the class.
featureSetElevation(f, fs, o, elevation, nullEq) ==
  delegateToForm(f, fs, o, "setElevation", elevation, nullEq)

\* feature.translate / scale / rotate, installed by _initDelegation
featureTransform(f, fs, o, method, nullEq) ==
  delegateToForm(f, fs, o, method, "", nullEq)

\* GeoEntity.setSelected on the Feature itself: _selected, then _onSelect or
\* _onDeselect, which call this.setStyle (the Feature's).
selfSetSelected(f, fs, o, selected, nullEq) ==
  LET o1 == Called([o EXCEPT !.self.selected = selected], Self, "setSelected")
  IN IF selected
     THEN featureSetStyle(f, fs, o1, getSelectedStyle, nullEq)
     ELSE featureSetStyle(f, fs, o1, o1.self.previousStyle, nullEq)

featureSetSelectedSelfFirst(f, fs, o, selected, nullEq) ==
  LET r == selfSetSelected(f, fs, o, selected, nullEq)
  IN IF r.thrown # "none"
     THEN r
     ELSE delegateToForm(r.feature, r.forms, r.fops, "setSelected", selected, nullEq)

\* Feature.setSelected(selected)
featureSetSelected(f, fs, o, selected, nullEq) ==
  IF selected
  THEN LET r == delegateToForm(f, fs, o, "setSelected", selected, nullEq)
       IN IF r.thrown # "none"
          THEN r
          ELSE selfSetSelected(r.feature, r.forms, r.fops, selected, nullEq)
  ELSE LET r == selfSetSelected(f, fs, o, selected, nullEq)
       IN IF r.thrown # "none"
          THEN r
          ELSE delegateToForm(r.feature, r.forms, r.fops, "setSelected", selected, nullEq)

\* isSelected() of the Feature: GeoEntity.isSelected answers _visible
featureIsSelected(f) == f.visible

\* GeoEntity.remove() on the Feature: hide(), then the 'entity/remove' event
baseRemove(f, fs, o) ==
  LET r == featureHide(f, fs)
  IN OpsRet(r.feature, r.forms,
            [Called(o, Self, "remove") EXCEPT !.self.removed = TRUE,
                                              !.events = Append(@, "entity/remove")],
            "none")

\* The loop of remove() over the display mode ids: a form found is removed
\* when `recursive' and its property is emptied.
RECURSIVE removeForms(_, _, _, _, _)
removeForms(modes, f, fs, o, recursive) ==
  IF modes = <<>>
  THEN OpsRet(f, fs, o, "none")
  ELSE LET s == getFormPropertyName(Head(modes)).name
           r == IF recursive
                THEN callForm(f, fs, o, s, "remove", "", "false")
                ELSE OpsRet(f, fs, o, "none")
       IN IF ~fs[s].present
          THEN removeForms(Tail(modes), f, fs, o, recursive)
          ELSE removeForms(Tail(modes), r.feature, [r.forms EXCEPT ![s] = NoForm],
                           r.fops, recursive)

featureRemoveByForms(f, fs, o, recursive) ==
  LET r == IF recursive
           THEN delegateToForms(f, fs, o, "remove", "", "false")
           ELSE OpsRet(f, fs, o, "none")
  IN baseRemove(r.feature, [s \in Slots |-> NoForm], r.fops)

\* Feature.remove(recursive)
featureRemove(f, fs, o, recursive) ==
  LET r == removeForms(getDisplayModeIds, f, fs, o, recursive)
  IN baseRemove(r.feature, r.forms, r.fops)

\* The setForm calls of Feature._init, in the order of InitModes, and the
\* display mode it arrives at: args.displayMode or the mode of the first form.
RECURSIVE initForms(_, _, _, _)
initForms(modes, f, fs, given) ==
  IF modes = <<>>
  THEN FeatRet(f, fs, "none")
  ELSE LET s == getFormPropertyName(Head(modes)).name
           r == setForm(f, fs, Head(modes), NewForm("concrete"))
       IN IF s \in given
          THEN initForms(Tail(modes), r.feature, r.forms, given)
          ELSE initForms(Tail(modes), f, fs, given)

firstMode(given) ==
  CASE "mesh" \in given -> "mesh"
    [] "footprint" \in given -> "extrusion"
    [] "line" \in given -> "line"
    [] "image" \in given -> "image"
    [] OTHER -> "none"

\* new Feature(id, {show, displayMode, line, polygon, mesh, image})
newFeature(given, displayMode, visible) ==
  LET r == initForms(InitModes, [displayMode |-> "none", visible |-> visible],
                     [s \in Slots |-> NoForm], given)
  IN setDisplayMode(r.feature, r.forms,
                    IF displayMode # "none" THEN displayMode ELSE firstMode(given))

InitOps == fops = OpsInit

OpsDone(r) ==
  /\ feature' = r.feature
  /\ forms' = r.forms
  /\ fops' = r.fops
  /\ UNCHANGED <<entityVars, managerVars, handleVars, collectionVars, lifecycleVars,
                 listenerVars, displayVars, editVars, collOpsVars, visVars, dragVars>>

\* The calls and events of an operation are those it made itself.
Fresh == [fops EXCEPT !.calls = <<>>, !.events = <<>>]

NewFeature ==
  \E given \in FormSets, displayMode \in InitDisplayModes, visible \in BOOLEAN :
    LET r == newFeature(given, displayMode, visible)
    IN /\ OpsDone(OpsRet(r.feature, r.forms, OpsInit, r.thrown))
       /\ Done("newFeature", [displayMode |-> displayMode], r.thrown)

FeatureSetStyle ==
  \E style \in {getDefaultStyle, getSelectedStyle} :
    LET r == featureSetStyle(feature, forms, Fresh, style, "false")
    IN /\ ~fops.self.removed
       /\ OpsDone(r)
       /\ Done("setStyle", [value |-> style], r.thrown)

FeatureSetHeight ==
  \E height \in Levels :
    LET r == featureSetHeight(feature, forms, Fresh, height, "false")
    IN /\ ~fops.self.removed
       /\ OpsDone(r)
       /\ Done("setHeight", [value |-> height], r.thrown)

FeatureSetElevation ==
  \E elevation \in Levels :
    LET r == featureSetElevation(feature, forms, Fresh, elevation, "false")
    IN /\ ~fops.self.removed
       /\ OpsDone(r)
       /\ Done("setElevation", [value |-> elevation], r.thrown)

FeatureTransform ==
  \E method \in Transforms :
    LET r == featureTransform(feature, forms, Fresh, method, "false")
    IN /\ ~fops.self.removed
       /\ OpsDone(r)
       /\ Done(method, "", r.thrown)

FeatureSetSelected ==
  \E selected \in BOOLEAN, nullEq \in NullEquals :
    LET r == featureSetSelected(feature, forms, Fresh, selected, nullEq)
    IN /\ ~fops.self.removed
       /\ OpsDone(r)
       /\ Done("setSelected", [selected |-> selected], r.thrown)

\* form.setSelected(selected) called on a form itself
FormSetSelected ==
  \E s \in Slots, selected \in BOOLEAN, nullEq \in NullEquals :
    LET r == callForm(feature, forms, Fresh, s, "setSelected", selected, nullEq)
    IN /\ ~fops.self.removed
       /\ forms[s].present
       /\ OpsDone(r)
       /\ Done("formSetSelected", [slot |-> s, selected |-> selected], r.thrown)

\* feature.remove(recursive); the forms the Feature held are noted
FeatureRemove ==
  \E recursive \in BOOLEAN :
    LET r == featureRemove(feature, forms, Fresh, recursive)
    IN /\ ~fops.self.removed
       /\ OpsDone(r)
       /\ Done("remove", [recursive |-> recursive,
                          held |-> {s \in Slots : forms[s].present}], r.thrown)

(***************************************************************************)
(* The 'entity/display-mode' and 'entity/display-mode/reset' handlers of   *)
(* the EntityManager, applied to the Feature (which the events' ids name). *)
(***************************************************************************)
\* A JavaScript value used as a condition: a display mode string is truthy,
\* undefined is not.
truthy(mode) == mode \in DisplayModes

\* if (!this._origDisplayModes[id]) this._origDisplayModes[id] = feature.getDisplayMode()
saveDisplayMode(orig, f) ==
  IF orig = NoRecord \/ ~truthy(orig) THEN f.displayMode ELSE orig

\* The 'entity/display-mode' callback for the Feature
onDisplayMode(orig, f, fs, displayMode) ==
  [orig |-> saveDisplayMode(orig, f), ret |-> setDisplayMode(f, fs, displayMode)]

\* The 'entity/display-mode/reset' callback for the Feature
onDisplayModeReset(orig, f, fs) ==
  IF orig # NoRecord /\ truthy(orig)
  THEN [orig |-> NoRecord, ret |-> setDisplayMode(f, fs, orig)]
  ELSE [orig |-> orig, ret |-> FeatRet(f, fs, "none")]

InitDisplayMode ==
  /\ origDisplayModes = NoRecord
  /\ overrides = [first |-> NoOverride, direct |-> FALSE]

DisplayModeEvent ==
  \E displayMode \in ModeArgs :
    LET r == onDisplayMode(origDisplayModes, feature, forms, displayMode)
    IN /\ origDisplayModes' = r.orig
       /\ overrides' = IF overrides.first = NoOverride
                       THEN [overrides EXCEPT !.first = feature.displayMode]
                       ELSE overrides
       /\ FeatureDone(r.ret)
       /\ Done("entity/display-mode", displayMode, r.ret.thrown)

DisplayModeReset ==
  LET r == onDisplayModeReset(origDisplayModes, feature, forms)
  IN /\ origDisplayModes' = r.orig
     /\ overrides' = [first |-> NoOverride, direct |-> FALSE]
     /\ FeatureDone(r.ret)
     /\ Done("entity/display-mode/reset", "", r.ret.thrown)

(***************************************************************************)
(* EventTarget listeners.  A dispatch runs the registered callbacks of the *)
(* event's type one after the other; a callback can dispatch an event      *)
(* itself, which runs to completion before the callback goes on.  The      *)
(* dispatches in progress form a stack.                                    *)
(***************************************************************************)
MaxListeners == 2
MaxRedispatch == 2
MaxDepth == 4

ListenerIds == 0..(MaxListeners - 1)
EventTypes == {"entity/select", "entity/dblclick"}
Idle == -1

\* An id addEventListener has not handed out yet
NoListener == [registered |-> FALSE, type |-> "none", isHandling |-> FALSE]

\* The ids addEventListener has handed out so far
nextEventListenerId(ls) == Cardinality({l \in ListenerIds : ls[l] # NoListener})

\* addEventListener(type, callback): the wrapper starts with isHandling = false
addEventListener(ls, type) ==
  [ls EXCEPT ![nextEventListenerId(ls)] =
     [registered |-> TRUE, type |-> type, isHandling |-> FALSE]]

\* listener.cancel(): _removeEventListener(id)
removeEventListener(ls, l) == [ls EXCEPT ![l].registered = FALSE]

wrapUnguarded(isHandling) == [run |-> TRUE, isHandling |-> TRUE]

\* The wrapper of _wrapEventListenerCallback on entry: it returns at once when
\* its callback is being handled, otherwise it sets the flag and calls it.
wrapEventListenerCallback(isHandling) ==
  IF isHandling
  THEN [run |-> FALSE, isHandling |-> isHandling]
  ELSE [run |-> TRUE, isHandling |-> TRUE]

\* handleEvent(event): the handlers of the event's type in id order
handlersOf(ls, type) ==
  SelectSeq([k \in 1..MaxListeners |-> k - 1],
            LAMBDA l : ls[l].registered /\ ls[l].type = type)

Frame(ls, type) == [type |-> type, pending |-> handlersOf(ls, type), running |-> Idle, left |-> 0]

\* The listeners whose callback is running in some dispatch in progress
runningIn(st) == {st[k].running : k \in 1..Len(st)} \ {Idle}

Top(st) == st[Len(st)]
SetTop(st, f) == [st EXCEPT ![Len(st)] = f]
Pop(st) == SubSeq(st, 1, Len(st) - 1)

InitListeners ==
  /\ listeners = [l \in ListenerIds |-> NoListener]
  /\ stack = <<>>
  /\ faulted = {}

ListenerDone == UNCHANGED <<entityVars, managerVars, handleVars, collectionVars,
                            featureVars, lifecycleVars, displayVars, editVars, opsVars, collOpsVars, visVars, dragVars>>

AddEventListener ==
  \E type \in EventTypes :
    /\ stack = <<>>
    /\ nextEventListenerId(listeners) < MaxListeners
    /\ listeners' = addEventListener(listeners, type)
    /\ UNCHANGED <<stack, faulted>>
    /\ Done("addEventListener", type, "none")
    /\ ListenerDone

CancelListener ==
  \E l \in ListenerIds :
    /\ stack = <<>>
    /\ listeners[l].registered
    /\ listeners' = removeEventListener(listeners, l)
    /\ UNCHANGED <<stack, faulted>>
    /\ Done("cancel", l, "none")
    /\ ListenerDone

\* dispatchEvent(event) from outside any callback
DispatchEvent ==
  \E type \in EventTypes :
    /\ stack = <<>>
    /\ stack' = <<Frame(listeners, type)>>
    /\ UNCHANGED <<listeners, faulted>>
    /\ Done("dispatchEvent", type, "none")
    /\ ListenerDone

\* handleEvent calls the next handler of the innermost dispatch
CallHandler ==
  /\ stack # <<>>
  /\ Top(stack).running = Idle
  /\ Top(stack).pending # <<>>
  /\ LET l == Head(Top(stack).pending)
         w == wrapEventListenerCallback(listeners[l].isHandling)
     IN /\ listeners' = [listeners EXCEPT ![l].isHandling = w.isHandling]
        /\ stack' = SetTop(stack, [Top(stack) EXCEPT
                                     !.pending = Tail(@),
                                     !.running = IF w.run THEN l ELSE Idle,
                                     !.left = IF w.run THEN MaxRedispatch ELSE 0])
        /\ Done(IF w.run THEN "callback" ELSE "suppressed",
                [listener |-> l, wasRunning |-> l \in runningIn(stack),
                 wasFaulted |-> l \in faulted], "none")
  /\ UNCHANGED faulted
  /\ ListenerDone

\* The running callback dispatches an event
Redispatch ==
  \E type \in EventTypes :
    /\ stack # <<>>
    /\ Top(stack).running # Idle
    /\ Top(stack).left > 0
    /\ Len(stack) < MaxDepth
    /\ stack' = Append(SetTop(stack, [Top(stack) EXCEPT !.left = @ - 1]),
                       Frame(listeners, type))
    /\ UNCHANGED <<listeners, faulted>>
    /\ Done("redispatch", type, "none")
    /\ ListenerDone

\* The running callback returns: the wrapper clears isHandling
CallbackReturns ==
  /\ stack # <<>>
  /\ Top(stack).running # Idle
  /\ listeners' = [listeners EXCEPT ![Top(stack).running].isHandling = FALSE]
  /\ stack' = SetTop(stack, [Top(stack) EXCEPT !.running = Idle, !.left = 0])
  /\ UNCHANGED faulted
  /\ Done("return", Top(stack).running, "none")
  /\ ListenerDone

\* The running callback throws: the exception leaves every wrapper and every
\* dispatch in progress, and no wrapper clears its flag.
CallbackThrows ==
  /\ stack # <<>>
  /\ Top(stack).running # Idle
  /\ faulted' = faulted \cup runningIn(stack)
  /\ stack' = <<>>
  /\ UNCHANGED listeners
  /\ Done("throw", Top(stack).running, "Error")
  /\ ListenerDone

\* Every handler of the innermost dispatch was called: the dispatch returns
DispatchReturns ==
  /\ stack # <<>>
  /\ Top(stack).running = Idle
  /\ Top(stack).pending = <<>>
  /\ stack' = Pop(stack)
  /\ UNCHANGED <<listeners, faulted>>
  /\ Done("dispatched", Top(stack).type, "none")
  /\ ListenerDone

(***************************************************************************)
(* EditManager: named modules whose event bindings are bound on the        *)
(* EventManager while the module is enabled, and editing sessions over a   *)
(* set of entities and their Handles.  The entities are Features drawn as  *)
(* a Polygon (footprint or extrusion); a Handle is known by its number.    *)
(***************************************************************************)
MaxHandles == 3
MaxBound == 2

ModuleNames == {"translation", "draw"}
ModuleObjects == {"t1", "d1", "d2"}
NoModule == "none"
EditEvents == {"input/leftdown", "input/leftclick", "entity/draw"}
EditIds == {"f1", "f2"}
EditOrder == <<"f1", "f2">>
HandleIds == 1..MaxHandles

\* The modules handed to addModule: a TranslationModule under 'translation',
\* one of two DrawModule objects under 'draw'.
Registrations == {<<"translation", "t1">>, <<"draw", "d1">>, <<"draw", "d2">>}

\* module.getEventBindings(): the bindings of BaseEditModule, to which a
\* DrawModule adds 'input/leftclick' and the persistent 'entity/draw'.
BaseBindings == {[event |-> "input/leftdown", persistent |-> FALSE]}

getEventBindings(module) ==
  IF module \in {"d1", "d2"}
  THEN BaseBindings \cup {[event |-> "input/leftclick", persistent |-> FALSE],
                          [event |-> "entity/draw", persistent |-> TRUE]}
  ELSE BaseBindings

bindingEvents(module) == {b.event : b \in getEventBindings(module)}

\* args.persistent of the binding the module declares for the event
isPersistent(module, event) ==
  \E b \in getEventBindings(module) : b.event = event /\ b.persistent

\* _listeners[name][event] when no handle is stored
NoEditHandle == [owner |-> NoModule, persistent |-> FALSE]

BindRet(held, count) == [handle |-> held, count |-> count]

bindEventAlways(held, count, module, persistent) ==
  BindRet([owner |-> module, persistent |-> persistent], count + 1)

\* bindEvent: unless _listeners[name][event] holds a handle, addEventHandler
\* binds the callback to the module and the handle is stored with its
\* persistent flag; count is the number of handlers bound on the
\* EventManager for the event.
bindEvent(held, count, module, persistent) ==
  IF held # NoEditHandle
  THEN BindRet(held, count)
  ELSE BindRet([owner |-> module, persistent |-> persistent], count + 1)

EditRet(s, thrown) == [edit |-> s, thrown |-> thrown]

isModuleEnabled(s, name) == name \in s.enabledModules

enableModule(s, name) ==
  LET module == s.modules[name]
      bind(e) == bindEvent(s.listeners[name][e], s.bound[name][e], module,
                           isPersistent(module, e))
  IN IF module = NoModule
     THEN EditRet(s, "DeveloperError")
     ELSE IF name \in s.enabledModules
          THEN EditRet(s, "none")
          ELSE EditRet([s EXCEPT
                 !.bound[name] = [e \in EditEvents |->
                                    IF e \in bindingEvents(module) THEN bind(e).count ELSE @[e]],
                 !.listeners[name] = [e \in EditEvents |->
                                    IF e \in bindingEvents(module) THEN bind(e).handle ELSE @[e]],
                 !.enabledModules = @ \cup {name}], "none")

\* disableModule: every handle that is not persistent is cancelled and dropped
disableModule(s, name) ==
  LET gone == {e \in EditEvents : /\ s.listeners[name][e] # NoEditHandle
                                  /\ ~s.listeners[name][e].persistent}
  IN [s EXCEPT
        !.bound[name] = [e \in EditEvents |-> IF e \in gone THEN @[e] - 1 ELSE @[e]],
        !.listeners[name] = [e \in EditEvents |-> IF e \in gone THEN NoEditHandle ELSE @[e]],
        !.enabledModules = @ \ {name}]

addModule(s, name, module) ==
  LET r == enableModule([s EXCEPT !.modules[name] = module], name)
  IN IF r.thrown # "none" THEN r ELSE EditRet(disableModule(r.edit, name), "none")

setIsModuleEnabled(s, name, state) ==
  IF state THEN enableModule(s, name) ELSE EditRet(disableModule(s, name), "none")

toggleModule(s, name) ==
  IF name \in s.enabledModules
  THEN EditRet(disableModule(s, name), "none")
  ELSE enableModule(s, name)

\* The loop of enable() over the tracked entities in store order:
\* showAsFootprint() when args.show, and with args.addHandles the entity's
\* handles are replaced by a new Handle, which joins the manager's handles.
RECURSIVE renderHandles(_, _, _, _)
renderHandles(s, order, showArg, addHandles) ==
  IF order = <<>>
  THEN s
  ELSE LET e == Head(order)
           s1 == IF e \in s.entities /\ showArg
                 THEN [s EXCEPT !.modes[e] = "footprint"]
                 ELSE s
           s2 == IF e \in s.entities /\ addHandles
                 THEN [s1 EXCEPT !.handlesOf[e] = {s.next + 1},
                                 !.handles = @ \cup {s.next + 1},
                                 !.next = @ + 1]
                 ELSE s1
       IN renderHandles(s2, Tail(order), showArg, addHandles)

\* EditManager.enable({entities, show, addHandles})
enable(s, entities, showArg, addHandles) ==
  LET s1 == [s EXCEPT !.editing = TRUE, !.entities = @ \cup entities]
      s2 == [s1 EXCEPT !.wasTranslationModuleEnabled = isModuleEnabled(s1, "translation")]
      r == enableModule(s2, "translation")
  IN IF r.thrown # "none"
     THEN r
     ELSE EditRet(renderHandles([r.edit EXCEPT !.selection = FALSE],
                                EditOrder, showArg, addHandles), "none")

disableKeepingSets(s) ==
  setIsModuleEnabled([s EXCEPT !.editing = FALSE], "translation",
                     s.wasTranslationModuleEnabled)

\* EditManager.disable()
disable(s) ==
  LET s1 == [s EXCEPT !.editing = FALSE,
                      !.removed = @ \cup s.handles,
                      !.modes = [e \in EditIds |->
                                   IF e \in s.entities THEN "extrusion" ELSE @[e]],
                      !.handlesOf = [e \in EditIds |->
                                       IF e \in s.entities THEN {} ELSE @[e]]]
      s2 == [s1 EXCEPT !.handles = {}, !.entities = {}]
      r == setIsModuleEnabled(s2, "translation", s2.wasTranslationModuleEnabled)
  IN IF r.thrown # "none"
     THEN r
     ELSE EditRet([r.edit EXCEPT !.selection = TRUE], "none")

\* new EditManager(managers), with the entities shown as extrusions
InitEdit ==
  /\ edit = [editing |-> FALSE, entities |-> {}, handles |-> {},
             modules |-> [n \in ModuleNames |-> NoModule], enabledModules |-> {},
             listeners |-> [n \in ModuleNames |-> [e \in EditEvents |-> NoEditHandle]],
             wasTranslationModuleEnabled |-> FALSE,
             bound |-> [n \in ModuleNames |-> [e \in EditEvents |-> 0]],
             selection |-> TRUE,
             modes |-> [e \in EditIds |-> "extrusion"],
             handlesOf |-> [e \in EditIds |-> {}],
             removed |-> {}, next |-> 0]
  /\ session = [active |-> FALSE, before |-> FALSE]

EditDone(r) ==
  /\ edit' = r.edit
  /\ UNCHANGED <<entityVars, managerVars, handleVars, collectionVars, featureVars,
                 lifecycleVars, listenerVars, displayVars, opsVars, collOpsVars, visVars, dragVars>>

\* A binding is added only while no event has MaxBound handlers.
BoundBelowMax == \A n \in ModuleNames, e \in EditEvents : edit.bound[n][e] < MaxBound

AddModule ==
  \E reg \in Registrations :
    /\ BoundBelowMax
    /\ EditDone(addModule(edit, reg[1], reg[2]))
    /\ UNCHANGED session
    /\ Done("addModule", [name |-> reg[1], module |-> reg[2]],
            addModule(edit, reg[1], reg[2]).thrown)

EnableModule ==
  \E name \in ModuleNames :
    /\ BoundBelowMax
    /\ EditDone(enableModule(edit, name))
    /\ UNCHANGED session
    /\ Done("enableModule", [name |-> name, wasEnabled |-> isModuleEnabled(edit, name)],
            enableModule(edit, name).thrown)

DisableModule ==
  \E name \in ModuleNames :
    /\ EditDone(EditRet(disableModule(edit, name), "none"))
    /\ UNCHANGED session
    /\ Done("disableModule", [name |-> name], "none")

SetIsModuleEnabled ==
  \E name \in ModuleNames, state \in BOOLEAN :
    /\ BoundBelowMax
    /\ EditDone(setIsModuleEnabled(edit, name, state))
    /\ UNCHANGED session
    /\ Done("setIsModuleEnabled", <<name, state>>, setIsModuleEnabled(edit, name, state).thrown)

ToggleModule ==
  \E name \in ModuleNames :
    /\ BoundBelowMax
    /\ EditDone(toggleModule(edit, name))
    /\ UNCHANGED session
    /\ Done("toggleModule", name, toggleModule(edit, name).thrown)

\* enable(args); the session begins with the first enable() after a disable().
Enable ==
  \E entities \in SUBSET EditIds, showArg \in BOOLEAN, addHandles \in BOOLEAN :
    LET r == enable(edit, entities, showArg, addHandles)
    IN /\ BoundBelowMax
       /\ addHandles => edit.next + Cardinality(edit.entities \cup entities) <= MaxHandles
       /\ EditDone(r)
       /\ session' = IF session.active
                     THEN session
                     ELSE [active |-> TRUE, before |-> isModuleEnabled(edit, "translation")]
       /\ Done("enable", [show |-> showArg, addHandles |-> addHandles], r.thrown)

Disable ==
  LET r == disable(edit)
  IN /\ BoundBelowMax
     /\ EditDone(r)
     /\ session' = [active |-> FALSE, before |-> FALSE]
     /\ Done("disable", [inSession |-> session.active, before |-> session.before,
                          entities |-> edit.entities, handles |-> edit.handles], r.thrown)

(***************************************************************************)
(* SpecVisualisation: the static projections of the VisualisationManager.  *)
(* A projection is an object with an ID and an ARTIFACT; render() and      *)
(* unrender() of the projection switch its effects on and off.  The        *)
(* manager keeps the projections added in an ItemStore by ID, and the ID   *)
(* toggleRender() rendered last in _currentProjection.                     *)
(***************************************************************************)
Projections == {"P1", "P2", "P3"}

ARTIFACT == [p \in Projections |-> IF p = "P3" THEN "height" ELSE "colour"]

NotAProjection == "object"

NoProjection == "null"

VisInit == [stored |-> {}, rendered |-> {}, current |-> NoProjection, events |-> <<>>]

InitVis == vis = VisInit

VisResult(v, thrown) == [v |-> v, thrown |-> thrown]

\* AbstractProjection.render() and unrender(): the effects of one projection
prjRender(v, id) == [v EXCEPT !.rendered = @ \cup {id}]

prjUnrender(v, id) == [v EXCEPT !.rendered = @ \ {id}]

renderComplete(v, name, id) ==
  [v EXCEPT !.events = Append(@, [name |-> name, id |-> id, artifact |-> ARTIFACT[id]])]

addProjection(v, projection) ==
  IF projection \notin Projections THEN VisResult(v, "DeveloperError")
  ELSE IF projection \in v.stored THEN VisResult(v, "none")
  ELSE VisResult([v EXCEPT !.stored = @ \cup {projection}], "none")

visRemove(v, id) ==
  IF id \notin v.stored THEN VisResult(v, "none")
  ELSE VisResult([prjUnrender(v, id) EXCEPT
                    !.current = IF @ = id THEN NoProjection ELSE @,
                    !.stored = @ \ {id}], "none")

\* prj.ARTIFACT is read before prj is tested
render(v, id) ==
  IF id \notin v.stored THEN VisResult(v, "TypeError")
  ELSE VisResult(renderComplete(prjRender(v, id), "projection/render/complete", id), "none")

unrender(v, id) ==
  IF id \notin v.stored THEN VisResult(v, "TypeError")
  ELSE VisResult(renderComplete(prjUnrender(v, id), "projection/unrender/complete", id), "none")

toggleRender(v, id) ==
  IF v.current = NoProjection
  THEN IF id \notin v.stored THEN VisResult(v, "TypeError")
       ELSE VisResult([prjRender(v, id) EXCEPT !.current = id], "none")
  ELSE IF v.current = id
  THEN VisResult([prjUnrender(v, id) EXCEPT !.current = NoProjection], "none")
  ELSE LET w == prjUnrender(v, v.current)
       IN IF id \notin v.stored THEN VisResult(w, "TypeError")
          ELSE VisResult([prjRender(w, id) EXCEPT !.current = id], "none")

VisCall(name, id, r) ==
  /\ vis' = r.v
  /\ Done(name, id, r.thrown)
  /\ UNCHANGED <<entityVars, managerVars, handleVars, collectionVars, featureVars, lifecycleVars, listenerVars, displayVars, editVars, opsVars, collOpsVars, dragVars>>

Cleared(v) == [v EXCEPT !.events = <<>>]

AddProjection ==
  \E p \in Projections \cup {NotAProjection} :
    VisCall("addProjection", p, addProjection(Cleared(vis), p))

RemoveProjection ==
  \E id \in Projections : VisCall("removeProjection", id, visRemove(Cleared(vis), id))

Render ==
  \E id \in Projections : VisCall("render", id, render(Cleared(vis), id))

Unrender ==
  \E id \in Projections : VisCall("unrender", id, unrender(Cleared(vis), id))

ToggleRender ==
  \E id \in Projections : VisCall("toggleRender", id, toggleRender(Cleared(vis), id))

(***************************************************************************)
(* SpecTranslation: the TranslationModule.  A drag starts on the entity    *)
(* under the pointer, follows the pointer while it moves by at least       *)
(* MOVE_SENSITIVITY pixels, and ends with endDrag or cancel.  Screen       *)
(* positions and locations are pairs <<x, y>>; <<>> stands for null.       *)
(***************************************************************************)
MOVE_SENSITIVITY == 5

MaxScreen == 2

MaxDrags == 2

\* pointer positions: steps below and above the sensitivity in x, at it in y
ScreenPositions == {<<i * 3, j * MOVE_SENSITIVITY>> : i \in 0..MaxScreen, j \in 0..1}

NoTarget == "null"

DragTargets == {"T1"}

NoLocation == <<>>

absolute(n) == IF n < 0 THEN 0 - n ELSE n

subtract(a, b) == <<a[1] - b[1], a[2] - b[2]>>

\* RenderManager.convertScreenCoordsToLatLng: the point of the globe under a pixel
cartographicLocation(screenPos) == <<screenPos[1] * 2 + 1, 0 - screenPos[2]>>

\* the target's translate(diff): the target moves by diff
targetTranslate(d, diff) == [d EXCEPT !.at = <<@[1] + diff[1], @[2] + diff[2]>>]

dragTranslate(d, oldPos, newPos) == targetTranslate(d, subtract(newPos, oldPos))

dragReset(d) ==
  [d EXCEPT !.target = NoTarget, !.lastLocation = NoLocation,
            !.originalLocation = NoLocation]

DragInit ==
  [target |-> NoTarget, lastScreenCoords |-> NoLocation, lastLocation |-> NoLocation,
   originalLocation |-> NoLocation, cameraLocked |-> FALSE,
   at |-> <<0, 0>>, startedAt |-> <<0, 0>>, drags |-> 0]

InitDrag == drag = DragInit

startDrag(d, target, position) ==
  IF target = NoTarget THEN d
  ELSE [d EXCEPT !.target = target,
                 !.cameraLocked = TRUE,
                 !.lastScreenCoords = position,
                 !.originalLocation = cartographicLocation(position),
                 !.lastLocation = cartographicLocation(position),
                 !.startedAt = d.at,
                 !.drags = @ + 1]

updateDrag(d, position) ==
  IF d.target = NoTarget THEN d
  ELSE LET screenDiff == subtract(position, d.lastScreenCoords)
       IN IF /\ absolute(screenDiff[1]) < MOVE_SENSITIVITY
             /\ absolute(screenDiff[2]) < MOVE_SENSITIVITY
          THEN d
          ELSE LET cartLocation == cartographicLocation(position)
               IN [dragTranslate([d EXCEPT !.lastScreenCoords = position],
                                 d.lastLocation, cartLocation)
                     EXCEPT !.lastLocation = cartLocation]

endDrag(d, position) ==
  IF d.target = NoTarget THEN d
  ELSE [dragReset([d EXCEPT !.lastScreenCoords = position])
          EXCEPT !.cameraLocked = FALSE]

\* cancel() that gives up the drag and leaves the target where it is
cancelInPlace(d) ==
  IF d.target = NoTarget THEN d
  ELSE dragReset([d EXCEPT !.cameraLocked = FALSE])

cancel(d) ==
  IF d.target = NoTarget THEN d
  ELSE dragReset(dragTranslate([d EXCEPT !.cameraLocked = FALSE],
                               d.lastLocation, d.originalLocation))

DragCall(name, arg, d) ==
  /\ drag' = d
  /\ Done(name, arg, "none")
  /\ UNCHANGED <<entityVars, managerVars, handleVars, collectionVars, featureVars, lifecycleVars, listenerVars, displayVars, editVars, opsVars, collOpsVars, visVars>>

StartDrag ==
  /\ drag.drags < MaxDrags
  /\ \E target \in DragTargets \cup {NoTarget}, position \in ScreenPositions :
       DragCall("startDrag", [target |-> target, from |-> drag.at],
                startDrag(drag, target, position))

UpdateDrag ==
  \E position \in ScreenPositions :
    DragCall("updateDrag", [target |-> drag.target, from |-> drag.at],
             updateDrag(drag, position))

EndDrag ==
  \E position \in ScreenPositions :
    DragCall("endDrag", [target |-> drag.target, from |-> drag.at],
             endDrag(drag, position))

Cancel ==
  DragCall("cancel", [target |-> drag.target, from |-> drag.at], cancel(drag))

(***************************************************************************)
(* Specifications.                                                         *)
(***************************************************************************)

Init ==
  /\ op = [name |-> "new", arg |-> ""]
  /\ err = "none"
  /\ InitEntity /\ InitManager /\ InitHandle /\ InitCollection /\ InitFeature
  /\ InitLifecycle /\ InitListeners /\ InitDisplayMode /\ InitEdit /\ InitOps
  /\ InitCollOps /\ InitVis /\ InitDrag

Next ==
  \/ Construct
  \/ SetDirty \/ SetClean \/ Clean \/ SetStyle \/ ModifyStyle
  \/ Show \/ Hide \/ SetSelected

Spec == Init /\ [][Next]_vars

NextManager == Add \/ Remove \/ BulkCreate

SpecManager == Init /\ [][NextManager]_vars

NextHandle == NewHandle \/ HandleTranslate \/ OwnerHide

SpecHandle == Init /\ [][NextHandle]_vars

NextHandleLife ==
  \/ NewHandle \/ NewCentroidHandle \/ HandleTranslate \/ HandleRemove

SpecHandleLife == Init /\ [][NextHandleLife]_vars

NextCollectionOps == NewCollections \/ CollectionCall

SpecCollectionOps == Init /\ [][NextCollectionOps]_vars

NextVisualisation ==
  \/ AddProjection \/ Render \/ Unrender \/ ToggleRender \/ RemoveProjection

SpecVisualisation == Init /\ [][NextVisualisation]_vars

NextTranslation == StartDrag \/ UpdateDrag \/ EndDrag \/ Cancel

SpecTranslation == Init /\ [][NextTranslation]_vars

NextCollection ==
  \/ AddEntity \/ RemoveEntity
  \/ ChildShow \/ ChildHide \/ ChildSetDirty
  \/ DispatchRemove \/ ChildRemove

SpecCollection == Init /\ [][NextCollection]_vars

NextFeature == SetForm \/ SetDisplayMode \/ FeatureShow \/ FeatureHide \/ FormShow

SpecFeature == Init /\ [][NextFeature]_vars

NextFeatureCalls == SetForm \/ SetDisplayMode \/ FeatureShow \/ FeatureHide

SpecFeatureCalls == Init /\ [][NextFeatureCalls]_vars

NextLifecycle ==
  \/ NewEntity \/ ManagerAdd \/ EntityRemove \/ ManagerRemove
  \/ ToggleEntityVisibility

SpecLifecycle == Init /\ [][NextLifecycle]_vars

NextListeners ==
  \/ AddEventListener \/ CancelListener \/ DispatchEvent
  \/ CallHandler \/ Redispatch \/ CallbackReturns \/ CallbackThrows
  \/ DispatchReturns

SpecListeners == Init /\ [][NextListeners]_vars

NextDisplayMode ==
  \/ SetDisplayMode \/ FeatureShow \/ FeatureHide
  \/ DisplayModeEvent \/ DisplayModeReset

SpecDisplayMode == Init /\ [][NextDisplayMode]_vars

NextEdit ==
  \/ AddModule \/ EnableModule \/ DisableModule \/ SetIsModuleEnabled \/ ToggleModule
  \/ Enable \/ Disable

SpecEdit == Init /\ [][NextEdit]_vars

NextFeatureOps ==
  \/ NewFeature \/ FeatureSetStyle \/ FeatureSetHeight \/ FeatureSetElevation
  \/ FeatureTransform

SpecFeatureOps == Init /\ [][NextFeatureOps]_vars

NextFeatureSelect == NewFeature \/ FeatureSetSelected \/ FormSetSelected \/ FeatureRemove

SpecFeatureSelect == Init /\ [][NextFeatureSelect]_vars

(***************************************************************************)
(* Properties of one GeoEntity (Spec).                                     *)
(***************************************************************************)

C2_RoundTripRestores ==
  roundTrip.phase = "restored" => entity.style = roundTrip.style

\* C10: setSelected(v) on an entity whose selection state is already v leaves
\* getStyle() and getPreviousStyle() unchanged.
C10_RepeatedSelectionNoOp ==
  [][(/\ op'.name = "setSelected"
      /\ err' = "none"
      /\ entity.selected = (op'.arg = "true"))
     => (/\ entity'.style = entity.style
         /\ entity'.previousStyle = entity.previousStyle)]_vars

(***************************************************************************)
(* Properties of the EntityManager (SpecManager).                          *)
(***************************************************************************)

\* C3: whenever bulkCreate runs the constructor of a descriptor, every child id
\* the descriptor lists is already stored in the EntityManager.
C3_ChildrenFirst ==
  \A k \in 1..Len(created) : created[k].missing = {}

\* bulkCreate has constructed a parent whose children were all stored.
C3_Witness ==
  /\ op.name = "bulkCreate"
  /\ \E k \in 1..Len(created) : created[k].children # {} /\ created[k].missing = {}

\* C4 as stated: add with a stored ID throws and leaves the store as it was;
\* add with a value that is not a GeoEntity throws an error of another kind
\* than the duplicate-ID error and leaves the store as it was.
C4_AddRejects ==
  [][op'.name = "add" =>
       /\ (hasId(op'.arg) /\ getById(store, op'.arg.id))
            => (err' # "none" /\ store' = store)
       /\ op'.arg.kind # "GeoEntity"
            => (err' \notin {"none", "Error"} /\ store' = store)]_vars

\* C4, amended: add with a stored ID throws the duplicate-ID error, GeoEntity
\* or not; add with a value that is not a GeoEntity and carries no stored ID
\* throws an error of another kind; the store is as it was in both cases.
C4_AddRejectsAmended ==
  [][op'.name = "add" =>
       /\ (hasId(op'.arg) /\ getById(store, op'.arg.id))
            => (err' = "Error" /\ store' = store)
       /\ (op'.arg.kind # "GeoEntity" /\ ~(hasId(op'.arg) /\ getById(store, op'.arg.id)))
            => (err' \in {"DeveloperError", "TypeError"} /\ store' = store)]_vars

\* A second GeoEntity with a stored ID was refused and the first one is kept.
C4_Witness ==
  /\ op.name = "add" /\ err = "Error"
  /\ op.arg.kind = "GeoEntity"
  /\ op.arg \notin store
  /\ \E x \in store : x.id = op.arg.id /\ x.kind = "GeoEntity"

(***************************************************************************)
(* Properties of the Handle (SpecHandle).                                  *)
(***************************************************************************)

C6_Aggregation ==
  \A k \in Collections :
    /\ collectionIsVisible(k, children, tracked)
         <=> \E id \in SeqRange(tracked[k]) : entityIsVisible(id, children, tracked)
    /\ collectionIsRenderable(k, children, tracked)
         <=> \A id \in SeqRange(tracked[k]) : entityIsRenderable(id, children, tracked)
    /\ collectionIsSelected(k, children, tracked)
         <=> \A id \in SeqRange(tracked[k]) : entityIsSelected(id, children, tracked)

\* A Collection with a visible child that is not renderable and a hidden child:
\* it is visible and not renderable.
C6_Witness ==
  \E k \in Collections :
    \E a, b \in SeqRange(tracked[k]) \cap Leaves :
      /\ isVisible(children[a]) /\ ~isRenderable(children[a])
      /\ ~isVisible(children[b])
      /\ collectionIsVisible(k, children, tracked)
      /\ ~collectionIsRenderable(k, children, tracked)

\* C7: an entity/remove event dispatched on a child of a Collection (an entity
\* the Collection tracks and whose parent it is) runs the Collection's detach
\* handler, which stops tracking the child, and is cancelled; the Collection's
\* own parent never handles the event.
C7_RemoveEventStopsAtCollection ==
  dispatched.target # NoEntity =>
    \A k \in dispatched.trackedBy :
      dispatched.parentsBefore[dispatched.target] = k =>
        /\ k \in dispatched.detached
        /\ ~getEntity(tracked, k, dispatched.target)
        /\ dispatched.cancelled
        /\ dispatched.parentsBefore[k] \notin SeqRange(dispatched.reached)

\* The event was dispatched on a leaf of K1 while K1 was a child of K2.
C7_Witness ==
  /\ op.name = "dispatchEvent"
  /\ dispatched.target \in Leaves
  /\ dispatched.parentsBefore[dispatched.target] = "K1"
  /\ "K1" \in dispatched.trackedBy
  /\ dispatched.parentsBefore["K1"] = "K2"
  /\ dispatched.reached = <<dispatched.target, "K1">>
  /\ dispatched.cancelled

\* C14: after a child tracked by a Collection executes remove(), the
\* Collection no longer tracks it, without any removeEntity call by the caller.
C14_RemovedChildUntracked ==
  [][op'.name = "childRemove" =>
       \A k \in Collections :
         getEntity(tracked, k, op'.arg) => ~getEntity(tracked', k, op'.arg)]_vars

(***************************************************************************)
(* Properties of the Feature (SpecFeature).                                *)
(***************************************************************************)

C11_OnlyActiveFormVisible ==
  (/\ op.name = "setDisplayMode" /\ err = "none"
   /\ op.arg \in DisplayModes
   /\ feature.visible
   /\ getForm(feature, forms).present)
  => /\ isVisible(getForm(feature, forms).e)
     /\ \A s \in Slots \ {getFormPropertyName(op.arg).name} :
          forms[s].present => ~isVisible(forms[s].e)

\* C12: after any sequence of setForm and setDisplayMode calls,
\* getForm('extrusion') and getForm('footprint') return the same object and
\* getForms() lists it once; switching between footprint and extrusion mode
\* keeps that object and, on a shown Feature, sets its extrusion flag off
\* (footprint) or on (extrusion).
C12_SharedFootprintForm ==
  [][(op'.name \in {"setForm", "setDisplayMode"} /\ err' = "none") =>
       /\ getFormOf(forms', "extrusion") = getFormOf(forms', "footprint")
       /\ Cardinality({i \in DOMAIN getForms(forms') :
                         getForms(forms')[i] = getFormOf(forms', "footprint")}) <= 1
       /\ (/\ op'.name = "setDisplayMode"
           /\ op'.arg \in {"footprint", "extrusion"}
           /\ forms["footprint"].present)
          => /\ getFormOf(forms', "footprint") = getFormOf(forms, "footprint")
             /\ feature'.visible =>
                  forms'["footprint"].extrusion = (op'.arg = "extrusion")]_vars

(***************************************************************************)
(* Properties of the entity lifecycle (SpecLifecycle).                     *)
(***************************************************************************)

\* C13: remove() on an entity registered with an EntityManager leaves the
\* entity not visible and not retrievable through getById, and emits the
\* 'entity/remove' event carrying the entity's id exactly once.
C13_RemoveDetachesAndEmitsOnce ==
  (/\ op.name = "entityRemove"
   /\ op.arg.registered
   /\ members[op.arg.id].eventManager)
  => /\ ~members[op.arg.id].visible
     /\ ~getById(store, op.arg.id)
     /\ emitted = <<removeEvent(op.arg.id)>>

(***************************************************************************)
(* Properties of the listeners of an EventTarget (SpecListeners).          *)
(***************************************************************************)

\* C15: while the callback of a listener is executing, a nested invocation of
\* that listener is suppressed: no listener runs in two dispatches at once, the
\* nesting of dispatches is bounded by the number of listeners, and a listener
\* that is not executing (and whose callback never threw) is still invoked.
C15_ReentrancyGuard ==
  /\ \A j, k \in 1..Len(stack) :
       (j # k /\ stack[j].running # Idle) => stack[j].running # stack[k].running
  /\ Len(stack) <= nextEventListenerId(listeners) + 1
  /\ op.name = "suppressed" => (op.arg.wasRunning \/ op.arg.wasFaulted)
  /\ op.name = "callback" => (~op.arg.wasRunning /\ ~op.arg.wasFaulted)

\* A listener that dispatched from inside its callback was reached again and
\* suppressed, and the other listener ran inside that dispatch.
C15_Witness ==
  /\ Len(stack) = 2
  /\ stack[1].running = 0
  /\ stack[2].running = 1
  /\ stack[2].pending = <<>>
  /\ listeners[0].type = listeners[1].type

(***************************************************************************)
(* Properties of the display-mode events (SpecDisplayMode).                *)
(***************************************************************************)

\* C16: after one or more entity/display-mode events, entity/display-mode/reset
\* puts the Feature back in the display mode it had before the first of them
\* and clears the saved mode; a reset without a saved mode changes nothing.
C16_ResetRestoresFirstMode ==
  [][op'.name = "entity/display-mode/reset" =>
       /\ (overrides.first # NoOverride /\ ~overrides.direct)
            => /\ feature'.displayMode = overrides.first
               /\ origDisplayModes' = NoRecord
       /\ origDisplayModes = NoRecord => (feature' = feature /\ forms' = forms)]_vars

(***************************************************************************)
(* Properties of the EditManager (SpecEdit).                               *)
(***************************************************************************)

\* C17: after disable() ends an editing session, the translation module is
\* enabled exactly when it was enabled before the session began, however many
\* enable() calls the session had.
C17_TranslationRestored ==
  (op.name = "disable" /\ err = "none" /\ op.arg.inSession)
  => (isModuleEnabled(edit, "translation") = op.arg.before)


\* C18: whatever module calls were made, every (module name, event) pair has
\* at most one handler bound on the EventManager, and enableModule on a
\* module that is already enabled binds nothing.
C18_NoDoubleBinding ==
  [][/\ \A n \in ModuleNames, e \in EditEvents :
          edit.bound[n][e] <= 1 /\ edit'.bound[n][e] <= 1
     /\ (op'.name = "enableModule" /\ op'.arg.wasEnabled)
        => (edit'.bound = edit.bound /\ edit'.listeners = edit.listeners)]_vars

\* An enabled module with all its bindings bound was enabled once more.
C18_Witness ==
  /\ op.name = "enableModule" /\ err = "none" /\ op.arg.wasEnabled
  /\ \A e \in bindingEvents(edit.modules[op.arg.name]) : edit.bound[op.arg.name][e] = 1

\* C19: once addModule(name, module) has returned, every persistent binding
\* of the module is bound to the module and stays bound, and every
\* non-persistent binding of the module is bound exactly while the module is
\* enabled.
C19_PersistentBindings ==
  \A n \in ModuleNames :
    edit.modules[n] # NoModule =>
      \A e \in bindingEvents(edit.modules[n]) :
        IF isPersistent(edit.modules[n], e)
        THEN edit.listeners[n][e].owner = edit.modules[n] /\ edit.bound[n][e] = 1
        ELSE (edit.listeners[n][e].owner = edit.modules[n]) <=> isModuleEnabled(edit, n)


\* C20: after disable() has returned the manager is not editing, it tracks no
\* entity and no handle, every handle it tracked has been removed, and every
\* entity it tracked holds no handles and is displayed as an extrusion.
C20_DisableClearsSession ==
  (op.name = "disable" /\ err = "none") =>
    /\ ~edit.editing
    /\ edit.entities = {}
    /\ edit.handles = {}
    /\ op.arg.handles \subseteq edit.removed
    /\ \A e \in op.arg.entities :
         edit.handlesOf[e] = {} /\ edit.modes[e] = "extrusion"

\* disable() ended a session that tracked both entities and more handles than
\* entities (enable() was called twice with addHandles).
C20_Witness ==
  /\ op.name = "disable" /\ err = "none"
  /\ op.arg.entities = EditIds
  /\ Cardinality(op.arg.handles) > Cardinality(EditIds)


\* ---------------------------------------------------------------------------
\* Claims about the operations a Feature hands on to its forms
\* ---------------------------------------------------------------------------

ActiveSlot == getFormPropertyName(feature.displayMode).name
Receivers == {fops.calls[i].on : i \in 1..Len(fops.calls)}
PresentSlots == {s \in Slots : forms[s].present}

\* C21: setStyle, setHeight and setElevation on a Feature reach every form the
\* Feature holds, the forms that are not displayed included (each of them
\* receives the call, and has the height or elevation given); translate,
\* scale and rotate reach the form of the current display mode only.
C21_AllFormsOrActiveForm ==
  /\ (op.name \in {"setStyle", "setHeight", "setElevation"} /\ err = "none")
       => /\ PresentSlots \subseteq Receivers
          /\ op.name = "setHeight"
               => \A s \in PresentSlots : fops.attrs[s].height = op.arg.value
          /\ op.name = "setElevation"
               => \A s \in PresentSlots : fops.attrs[s].elevation = op.arg.value
  /\ op.name \in Transforms => Receivers \subseteq {ActiveSlot}


\* The place of the first call of `method' on `on' among the calls of the
\* last operation (0: never called)
CallIndex(on, method) ==
  LET hits == {i \in 1..Len(fops.calls) : fops.calls[i] = [on |-> on, method |-> method]}
  IN IF hits = {} THEN 0 ELSE CHOOSE i \in hits : \A j \in hits : i <= j

\* C22: feature.setSelected(true) calls setSelected on the active form before
\* it selects the Feature itself; feature.setSelected(false) deselects the
\* Feature itself before it calls setSelected on the active form. When the
\* operation returns, both have been done.
C22_SelectionOrder ==
  (op.name = "setSelected" /\ getForm(feature, forms).present)
    => LET onForm == CallIndex(ActiveSlot, "setSelected")
           onSelf == CallIndex(Self, "setSelected")
       IN /\ err = "none" => (onForm > 0 /\ onSelf > 0)
          /\ op.arg.selected => (onSelf > 0 => (onForm > 0 /\ onForm < onSelf))
          /\ ~op.arg.selected => (onForm > 0 => (onSelf > 0 /\ onSelf < onForm))

C22_Witness ==
  /\ op.name = "setSelected"
  /\ ~op.arg.selected
  /\ err = "none"
  /\ getForm(feature, forms).present
  /\ CallIndex(Self, "setSelected") > 0
  /\ CallIndex(ActiveSlot, "setSelected") > CallIndex(Self, "setSelected")


SelectEvents == {i \in 1..Len(fops.events) : fops.events[i] = "entity/select"}

\* C23: after form.setSelected(true) called on the active form of a Feature,
\* two 'entity/select' events have been emitted (one for the form, one for the
\* Feature) and the Feature answers isSelected() with true.
C23_FormSelectionReachesFeature ==
  (/\ op.name = "formSetSelected"
   /\ op.arg.selected
   /\ getForm(feature, forms).present
   /\ op.arg.slot = ActiveSlot
   /\ err = "none")
    => /\ Cardinality(SelectEvents) = 2
       /\ featureIsSelected(feature)


\* C24: isSelected() answers the value given to the most recent setSelected
\* call (kept in _selected; false when setSelected was never called),
\* whatever the visibility of the entity.
C24_IsSelectedIsLastValue == isSelected(entity) = entity.selected


RemoveCalls(on) ==
  {i \in 1..Len(fops.calls) : fops.calls[i] = [on |-> on, method |-> "remove"]}

\* C25: feature.remove() calls remove() exactly once on every form the Feature
\* held (once on the polygon that serves both 'footprint' and 'extrusion'),
\* all of them before the removal of the Feature itself, and leaves every
\* form property empty.
C25_RemoveEachFormOnce ==
  (op.name = "remove" /\ op.arg.recursive)
    => /\ \A s \in Slots :
            /\ Cardinality(RemoveCalls(s)) = (IF s \in op.arg.held THEN 1 ELSE 0)
            /\ s \in op.arg.held => fops.attrs[s].removed = 1
            /\ ~forms[s].present
       /\ Cardinality(RemoveCalls(Self)) = 1
       /\ \A i \in RemoveCalls(Self) : i = Len(fops.calls)
       /\ fops.self.removed

C25_Witness ==
  /\ op.name = "remove"
  /\ op.arg.recursive
  /\ op.arg.held = {"footprint", "mesh"}
  /\ Len(fops.calls) = 3


(***************************************************************************)
(* Further properties of EntityManager.bulkCreate (SpecManager).           *)
(***************************************************************************)

CreatedIds(log) == {log[k].id : k \in 1..Len(log)}

\* C26: bulkCreate, given a batch without repeated ids whose children are all
\* described or stored, returns normally, has constructed exactly the entities
\* of the batch whose ids were not stored (the ids it returns), and leaves the
\* store holding them next to what it held; for a batch whose ids are all
\* stored already (a second call with the same batch), it constructs nothing
\* and leaves the store as it was.
C26_BulkCreateSkipsExisting ==
  [][(op'.name = "bulkCreate" /\ ~op'.arg.repeated /\ op'.arg.resolvable)
       => /\ err' = "none"
          /\ CreatedIds(created') = op'.arg.ids \ storedIds(store)
          /\ storedIds(store') = storedIds(store) \cup op'.arg.ids
          /\ {x \in store' : x.id \in storedIds(store)} = store]_vars

\* C27: bulkCreate called with a batch in which two descriptors carry the same
\* id throws an Error, and no entity of the batch has been constructed: the
\* store is what it was before the call.
C27_RepeatedIdFails ==
  [][(op'.name = "bulkCreate" /\ op'.arg.repeated)
       => (err' = "Error" /\ created' = <<>> /\ store' = store)]_vars

\* A batch with a repeated id was refused by a manager that holds entities.
C27_Witness ==
  /\ op.name = "bulkCreate"
  /\ op.arg.repeated
  /\ err = "Error"
  /\ store # {}


\* C28: toggleEntityVisibility throws an Error whenever one of the requested
\* ids is not in the manager (and only then); it does not skip the id.
C28_ToggleRejectsMissing ==
  op.name = "toggleEntityVisibility"
    => ((\E k \in 1..Len(op.arg.ids) : ~getById(store, op.arg.ids[k])) <=> err = "Error")

\* A request naming a stored entity and then a missing one was refused.
C28_Witness ==
  /\ op.name = "toggleEntityVisibility"
  /\ Len(op.arg.ids) = 2
  /\ getById(store, op.arg.ids[1])
  /\ ~getById(store, op.arg.ids[2])
  /\ members[op.arg.ids[1]].visible = op.arg.visible
  /\ err = "Error"


(***************************************************************************)
(* Properties of Handles without an index and of removed Handles           *)
(* (SpecHandleLife).                                                       *)
(***************************************************************************)

ChildCallPlaces(k, method) ==
  {i \in 1..Len(cops.calls) : cops.calls[i].from = k /\ cops.calls[i].method = method}

ChildrenCalled(k, method) ==
  LET hits == SelectSeq(cops.calls, LAMBDA x : x.from = k /\ x.method = method)
  IN [i \in 1..Len(hits) |-> hits[i].on]

BaseCallPlaces(k, method) ==
  {i \in 1..Len(cops.calls) :
     cops.calls[i] = [on |-> k, method |-> method, from |-> Base]}

\* C31: show, hide, translate, scale, setSelected and remove called on a
\* Collection are called on every tracked child exactly once, in insertion
\* order, and the method of the base class is applied to the Collection itself
\* once, after all the children; rotate, setStyle and modifyStyle are called on
\* every tracked child exactly once as well.
C31_ChildrenThenSelf ==
  op.name = "collection" =>
    LET k == op.arg.on
        m == op.arg.method
    IN /\ m \in {"show", "hide", "translate", "scale", "setSelected", "remove"}
            => /\ ChildrenCalled(k, m) = tracked[k]
               /\ Cardinality(BaseCallPlaces(k, m)) = 1
               /\ \A i \in ChildCallPlaces(k, m), j \in BaseCallPlaces(k, m) : i < j
       /\ m \in {"rotate", "setStyle", "modifyStyle"}
            => /\ Len(ChildrenCalled(k, m)) = Len(tracked[k])
               /\ SeqRange(ChildrenCalled(k, m)) = SeqRange(tracked[k])


C35_MissingProjectionFails ==
  (op.name \in {"render", "unrender"} /\ op.arg \notin vis.stored)
    => /\ err = "DeveloperError"
       /\ vis.events = <<>>

(***************************************************************************)
(* C33: show() on an entity that is not renderable invokes _build() before *)
(* the entity is marked visible.  As stated: when _build() throws, the     *)
(* marking that would have followed it has not happened, and the entity's  *)
(* visibility is what it was before the call.                              *)
(***************************************************************************)
C33_BuildBeforeVisible ==
  [][(/\ op'.name = "show"
      /\ ~isRenderable(entity)
      /\ err' = "DeveloperError")
     => entity'.visible = entity.visible]_vars

\* C33, amended: show() marks the entity visible first and then, on an entity
\* that is not renderable, invokes _build(): the entity is visible after the
\* call whether _build() returned or threw, an abstract _build() ends the call
\* with a DeveloperError, and any other leaves the entity renderable.
C33_VisibleThenBuild ==
  [][(op'.name = "show" /\ ~isRenderable(entity))
     => /\ entity'.visible
        /\ (entity.build = "abstract") = (err' = "DeveloperError")
        /\ err' = "none" => isRenderable(entity')]_vars

C33_Witness ==
  /\ op.name = "show"
  /\ err = "DeveloperError"
  /\ entity.visible /\ ~isRenderable(entity)

(***************************************************************************)
(* C34: setClean(component) with a component name removes only that        *)
(* component from the dirty set and leaves every other dirty component     *)
(* dirty; setClean() without an argument marks the entire entity clean.    *)
(***************************************************************************)
C34_SetCleanOneOrAll ==
  [][op'.name = "setClean"
     => IF op'.arg = "undefined"
        THEN entity'.dirty = {}
        ELSE entity'.dirty = entity.dirty \ {op'.arg}]_vars

C37_ThrowReleasesGuard ==
  /\ op.name = "throw"
       => /\ err = "Error"
          /\ stack = <<>>
          /\ ~listeners[op.arg].isHandling
  /\ op.name = "suppressed" => op.arg.wasRunning

(***************************************************************************)
(* C38: when toggleEntityVisibility fails because one of the requested ids *)
(* does not exist, the call has changed the visibility of no entity: every *)
(* entity is exactly as visible as before the call.                        *)
(***************************************************************************)
C38_FailedToggleChangesNothing ==
  [][(op'.name = "toggleEntityVisibility" /\ err' = "Error")
     => \A id \in DOMAIN members : members'[id].visible = members[id].visible]_vars

(***************************************************************************)
(* C39: after any sequence of setForm, setDisplayMode, show and hide calls *)
(* on a Feature, whenever the Feature is not visible none of its           *)
(* registered forms is visible.                                            *)
(***************************************************************************)
C39_HiddenFeatureHidesForms ==
  ~feature.visible => \A s \in Slots : forms[s].present => ~isVisible(forms[s].e)

(***************************************************************************)
(* C40: after any sequence of addEntity and removeEntity calls on one or   *)
(* more Collections, every entity a Collection tracks has that Collection  *)
(* as its parent, and the parent of an entity is cleared only when no      *)
(* Collection tracks the entity any more.                                  *)
(***************************************************************************)
C40_TrackedHasParent ==
  [][/\ \A k \in Collections : \A id \in SeqRange(tracked'[k]) : parent'[id] = k
     /\ \A id \in Entities :
          (parent[id] # NoEntity /\ parent'[id] = NoEntity)
            => \A k \in Collections : ~getEntity(tracked', k, id)]_vars

====
